---- MODULE Spec2Model ----
(***************************************************************************)
(* A model of the SQLBon desktop application: the App component           *)
(* (src/src/main.rs), its duplicate-warning Dialog                         *)
(* (src/src/add_duplicate_alert.rs) and the Analysis component             *)
(* (src/src/analysis.rs).  A message one component sends to another waits  *)
(* in the receiver's FIFO queue until an action handles it; a message the  *)
(* user's gesture sends is handled in the step of the gesture (update      *)
(* followed by the view refresh).                                          *)
(*                                                                         *)
(* Option<T> is a sequence of length <= 1; a text is a sequence of         *)
(* one-character strings; a file path is a text.                           *)
(***************************************************************************)
EXTENDS Integers, Sequences, FiniteSets, TLC

VARIABLES
    fs,                 \* the files that can be opened as a database, by path
    settingsFile,       \* sqlbon_settings.json
    conn,               \* App.conn
    stores,             \* App.ui.stores    (rows, row to select)
    receipts,           \* App.ui.receipts  (rows, row to select)
    total,              \* App.ui.total
    reset_item_fields,  \* App.ui.reset_item_fields
    reset_store_fields, \* App.ui.reset_store_fields
    settings_db_path,
    settings_db_path_status,
    settings_db_create_path,
    settings_db_create_path_status,
    capitalize_item_names,
    selected_unit,
    store_name_valid,
    store_location_valid,
    item_name_valid,
    appQ,               \* messages sent to App and not yet handled
    dialog,             \* add_duplicate_alert::Dialog
    dialogQ,            \* messages sent to the Dialog and not yet handled
    analysisConn,       \* Analysis.conn
    analysisQ,          \* messages sent to Analysis and not yet handled
    queriesFile,        \* ./sqlbon_queries.json
    queries,            \* Analysis.queries
    analysis,           \* Analysis.analysis: the result table shown, if any
    query_error,        \* Analysis.query_error
    selected_query,     \* Analysis.selected_query
    query_selected,     \* Analysis.query_selected
    new_button_valid,   \* Analysis.new_button_valid
    query_dialog,       \* the query the edit dialog is open for, if any
    input_values,       \* Analysis.input_values: the InputValue component
    types,              \* the Type component: the rows of a type editor
    panicked            \* the process died in an unwrap or an index check

dbVars  == <<fs, settingsFile>>
uiLists == <<stores, receipts, total>>
uiReset == <<reset_item_fields, reset_store_fields>>
uiSettings == <<settings_db_path, settings_db_path_status, settings_db_create_path,
                settings_db_create_path_status, capitalize_item_names>>
uiNames == <<store_name_valid, store_location_valid, item_name_valid>>
dialogVars == <<dialog, dialogQ>>
queryVars == <<queriesFile, queries, analysis, query_error, selected_query, query_selected,
               new_button_valid, query_dialog>>
childVars == <<input_values, types>>
analysisVars == <<analysisConn, analysisQ, queryVars, childVars>>
vars == <<dbVars, conn, uiLists, uiReset, uiSettings, selected_unit, uiNames, appQ,
          dialogVars, analysisVars, panicked>>

(***************************************************************************)
(* Bounds of the model.                                                    *)
(***************************************************************************)
MaxStores == 2       \* an INSERT INTO Store fails once a table holds this many rows
MaxReceipts == 2     \* an INSERT INTO Receipt fails once a table holds this many rows
MaxItems == 1        \* an INSERT INTO Item fails once a table holds this many rows
MaxQueries == 2      \* the user keeps at most this many queries
MaxQueued == 2       \* the user's events wait in App's queue at most this many at a time
MaxRows == 5         \* a type editor holds at most this many rows
MaxTyped == 1        \* the user gives at most this many rows a type other than String

(***************************************************************************)
(* Texts.                                                                  *)
(***************************************************************************)
None == <<>>
Some(x) == <<x>>

RECURSIVE trim_start(_)
trim_start(s) == IF s # <<>> /\ Head(s) = " " THEN trim_start(Tail(s)) ELSE s

RECURSIVE trim_end(_)
trim_end(s) == IF s # <<>> /\ s[Len(s)] = " " THEN trim_end(SubSeq(s, 1, Len(s) - 1)) ELSE s

\* the text taken as it was typed
untrimmed(s) == s

trim(s) == trim_end(trim_start(s))

upper(c) == CASE c = "a" -> "A" [] c = "b" -> "B" [] OTHER -> c

to_uppercase(s) == [i \in 1..Len(s) |-> upper(s[i])]

DigitChar == <<"0", "1", "2", "3", "4", "5", "6", "7", "8", "9">>

digit(n) == DigitChar[(n % 10) + 1]

\* DateTime::format("%F"): the date as YYYY-MM-DD, zero padded
format_F(date) ==
    << digit(date.year \div 1000), digit(date.year \div 100), digit(date.year \div 10),
       digit(date.year), "-", digit(date.month \div 10), digit(date.month), "-",
       digit(date.day \div 10), digit(date.day) >>

(***************************************************************************)
(* The values the user can enter.                                          *)
(***************************************************************************)
StoreNames == { <<" ">>, <<" ", "a">> }
StoreLocations == { <<>>, <<"x", " ">> }
Date1 == [year |-> 2024, month |-> 1, day |-> 5]
Date2 == [year |-> 2024, month |-> 12, day |-> 31]
Today == [year |-> 2026, month |-> 11, day |-> 2]
Dates == { Date1, Date2 }
ItemNames == { <<" ">>, <<"a", " ">> }
Quantities == { 2 }
Prices == { 3 }
Units == { "NOK", "EUR" }
Paths == { <<"a">>, <<"b">>, <<"d">> }

(***************************************************************************)
(* The database files.  A file of kind "db" holds the three tables the SQL *)
(* of main.rs names; "junk" and "none" (no file yet) open but hold no tables  *)
(* (any statement fails to prepare); "dir" cannot be opened or created.    *)
(* A read-only file takes no INSERT and cannot be truncated.               *)
(***************************************************************************)
EmptyDb == [kind |-> "db", readonly |-> FALSE, Store |-> <<>>, Receipt |-> <<>>, Item |-> <<>>]
JunkFile == [EmptyDb EXCEPT !.kind = "junk"]
Directory == [EmptyDb EXCEPT !.kind = "dir"]
NoFile == [EmptyDb EXCEPT !.kind = "none"]

StoreRow(id, name, location) == [id |-> id, name |-> name, location |-> location]
ReceiptRow(id, store_name, date) == [id |-> id, store_name |-> store_name, date |-> date]
TotalRow(unit, price) == [unit |-> unit, price |-> price]

RECURSIVE MaxId(_)
MaxId(rows) == IF rows = <<>> THEN 0
               ELSE LET m == MaxId(Tail(rows)) IN IF Head(rows).id > m THEN Head(rows).id ELSE m

\* the id an INSERT without an id gives the new row
NextId(rows) == MaxId(rows) + 1

RECURSIVE InsertById(_, _)
InsertById(row, sorted) ==
    IF sorted = <<>> THEN <<row>>
    ELSE IF row.id < Head(sorted).id THEN <<row>> \o sorted
    ELSE <<Head(sorted)>> \o InsertById(row, Tail(sorted))

\* ORDER BY id ASC
RECURSIVE OrderById(_)
OrderById(rows) == IF rows = <<>> THEN <<>> ELSE InsertById(Head(rows), OrderById(Tail(rows)))

\* the existence check with its two parameters bound the wrong way round
StoreExistsSwapped(db, name, location) ==
    \E i \in 1..Len(db.Store) : db.Store[i].name = location /\ db.Store[i].location = name

\* SELECT id FROM Store WHERE name == ?1 AND location == ?2
StoreExists(db, name, location) ==
    \E i \in 1..Len(db.Store) : db.Store[i].name = name /\ db.Store[i].location = location

\* the existence check comparing the store with Receipt.id
ReceiptExistsById(db, store, date) ==
    \E i \in 1..Len(db.Receipt) : db.Receipt[i].id = store /\ db.Receipt[i].date = date

\* SELECT id FROM Receipt WHERE store == ?1 AND date == ?2
ReceiptExists(db, store, date) ==
    \E i \in 1..Len(db.Receipt) : db.Receipt[i].store = store /\ db.Receipt[i].date = date

\* INSERT INTO Store (name, location) VALUES (?1, ?2)
InsertStore(db, name, location) ==
    [db EXCEPT !.Store = Append(@, StoreRow(NextId(@), name, location))]

\* INSERT INTO Receipt (store, date) VALUES (?1, ?2)
InsertReceipt(db, store, date) ==
    [db EXCEPT !.Receipt = Append(@, [id |-> NextId(@), store |-> store, date |-> date])]

\* INSERT INTO Item (name, quantity, price, unit, receipt) VALUES (?1, ?2, ?3, ?4, ?5)
InsertItem(db, name, quantity, price, unit, receipt) ==
    [db EXCEPT !.Item = Append(@, [name |-> name, quantity |-> quantity, price |-> price,
                                   unit |-> unit, receipt |-> receipt])]

\* an INSERT can fail; it does on a read-only file and once the table holds bound rows
InsertOutcomes(db, rows, bound) ==
    IF ~db.readonly /\ Len(rows) < bound THEN {TRUE, FALSE} ELSE {FALSE}

\* slice::binary_search_by_key(..).is_ok() on rows[lo+1 .. hi]
RECURSIVE binary_search_by_key(_, _, _, _)
binary_search_by_key(rows, key, lo, hi) ==
    IF lo >= hi THEN FALSE
    ELSE LET mid == lo + ((hi - lo) \div 2) IN
         IF rows[mid + 1].id = key THEN TRUE
         ELSE IF rows[mid + 1].id < key THEN binary_search_by_key(rows, key, mid + 1, hi)
         ELSE binary_search_by_key(rows, key, lo, mid)

\* a reload that always selects the last row
row_to_select_last(new_rows, old_rows) ==
    IF Len(new_rows) > 0 THEN Some(Len(new_rows) - 1) ELSE None

\* the row a reload selects: the first row the old list does not hold, else the last row
row_to_select(new_rows, old_rows) ==
    LET fresh == { i \in 1..Len(new_rows) :
                     ~binary_search_by_key(old_rows, new_rows[i].id, 0, Len(old_rows)) }
    IN  IF fresh # {} THEN Some((CHOOSE i \in fresh : \A j \in fresh : i <= j) - 1)
        ELSE IF Len(new_rows) > 0 THEN Some(Len(new_rows) - 1)
        ELSE None

\* SELECT id, name, location FROM Store ORDER BY id ASC
SelectStores(db) == OrderById(db.Store)

\* SELECT Receipt.id, Receipt.date, Store.name FROM Receipt INNER JOIN Store ... ORDER BY Receipt.id ASC
RECURSIVE JoinReceipts(_, _)
JoinReceipts(rs, db) ==
    IF rs = <<>> THEN <<>>
    ELSE LET r == Head(rs)
             ss == { i \in 1..Len(db.Store) : db.Store[i].id = r.store }
         IN  (IF ss = {} THEN <<>>
              ELSE <<ReceiptRow(r.id, db.Store[CHOOSE i \in ss : TRUE].name, r.date)>>)
             \o JoinReceipts(Tail(rs), db)

SelectReceipts(db) == JoinReceipts(OrderById(db.Receipt), db)

\* App::load_stores with a connection to db
load_stores(db, old) ==
    LET new_stores == SelectStores(db)
    IN  [list |-> new_stores, sel |-> row_to_select(new_stores, old.list)]

\* App::load_receipts with a connection to db
load_receipts(db, old) ==
    LET new_receipts == SelectReceipts(db)
    IN  [list |-> new_receipts, sel |-> row_to_select(new_receipts, old.list)]

RECURSIVE SumFor(_, _, _)
SumFor(items, receipt_id, unit) ==
    IF items = <<>> THEN 0
    ELSE (IF Head(items).receipt = receipt_id /\ Head(items).unit = unit
          THEN Head(items).price * Head(items).quantity ELSE 0)
         + SumFor(Tail(items), receipt_id, unit)

HasItem(db, receipt_id, unit) ==
    \E i \in 1..Len(db.Item) : db.Item[i].receipt = receipt_id /\ db.Item[i].unit = unit

\* the total of one unit only, as if the statement had no GROUP BY
for_receipt_one_unit(db, receipt_id) ==
    IF HasItem(db, receipt_id, "EUR")
    THEN <<TotalRow("EUR", SumFor(db.Item, receipt_id, "EUR"))>>
    ELSE IF HasItem(db, receipt_id, "NOK")
    THEN <<TotalRow("NOK", SumFor(db.Item, receipt_id, "NOK"))>>
    ELSE <<>>

\* Total::for_receipt: SELECT unit, SUM(price * quantity) ... GROUP BY unit
for_receipt(db, receipt_id) ==
    (IF HasItem(db, receipt_id, "EUR")
     THEN <<TotalRow("EUR", SumFor(db.Item, receipt_id, "EUR"))>> ELSE <<>>)
    \o
    (IF HasItem(db, receipt_id, "NOK")
     THEN <<TotalRow("NOK", SumFor(db.Item, receipt_id, "NOK"))>> ELSE <<>>)

(***************************************************************************)
(* NameStatus.                                                             *)
(***************************************************************************)
connect(s) == CASE s = "Valid" -> "Valid"
                [] s = "NonEmpty" -> "Valid"
                [] s = "Connected" -> "Connected"
                [] s = "Invalid" -> "Connected"

name_non_empty(s) == CASE s = "Valid" -> "Valid"
                       [] s = "NonEmpty" -> "NonEmpty"
                       [] s = "Connected" -> "Valid"
                       [] s = "Invalid" -> "NonEmpty"

\* an emptied name taken as a lost connection
name_empty_invalid(s) == "Invalid"

name_empty(s) == CASE s = "Valid" -> "Connected"
                   [] s = "NonEmpty" -> "Invalid"
                   [] s = "Connected" -> "Connected"
                   [] s = "Invalid" -> "Invalid"

\* set_sensitive of the store page's Add button
store_add_sensitive == store_name_valid = "Valid" /\ store_location_valid = "Valid"

\* set_sensitive of the item page's Add button
item_add_sensitive == item_name_valid = "Valid"

\* an open that takes every path
OpenAnything(path) == TRUE

\* Connection::open
OpenOk(path) == path \in DOMAIN fs /\ fs[path].kind # "dir"

\* a create that takes every path
CreateAnything(path) == TRUE

\* File::create
CreateOk(path) == path \in DOMAIN fs /\ fs[path].kind # "dir" /\ ~fs[path].readonly

\* the statements of load_stores / load_receipts / for_receipt prepare
PrepareOk(path) == fs[path].kind = "db"

(***************************************************************************)
(* sqlbon_settings.json.                                                   *)
(***************************************************************************)
NoSettingsFile == [exists |-> FALSE, valid |-> FALSE, db_file |-> <<>>,
                   capitalize_item_names |-> FALSE]
GarbageSettings == [exists |-> TRUE, valid |-> FALSE, db_file |-> <<>>,
                    capitalize_item_names |-> FALSE]
Settings(db_file, cap) == [exists |-> TRUE, valid |-> TRUE, db_file |-> db_file,
                           capitalize_item_names |-> cap]

\* opening the file for writing can fail, and so can the write into the truncated file
WriteOutcomes == {"ok", "open_failed", "write_failed"}

\* App::save_settings
save_settings(outcome, cap) ==
    /\ settingsFile' = CASE outcome = "ok" -> Settings(trim(settings_db_path), cap)
                         [] outcome = "write_failed" -> GarbageSettings
                         [] OTHER -> settingsFile
    /\ settings_db_path_status' = IF outcome = "ok" THEN "Successfully connected."
                                  ELSE "Could not write to sqlbon_settings.json"

(***************************************************************************)
(* Construction: App::init, Dialog::init_model.                            *)
(***************************************************************************)
\* the stored form of Date1 and Date2
Date1Text == <<"2", "0", "2", "4", "-", "0", "1", "-", "0", "5">>
Date2Text == <<"2", "0", "2", "4", "-", "1", "2", "-", "3", "1">>

InitFs ==
    [p \in Paths |->
        CASE p = <<"a">> -> EmptyDb
          [] p = <<"b">> -> [kind |-> "db", readonly |-> TRUE,
                             Store |-> <<StoreRow(1, <<"a">>, <<"x">>), StoreRow(2, <<"b">>, <<"x">>)>>,
                             Receipt |-> <<[id |-> 1, store |-> 2, date |-> Date1Text],
                                           [id |-> 2, store |-> 2, date |-> Date2Text]>>,
                             Item |-> <<[name |-> <<"a">>, quantity |-> 2, price |-> 3,
                                         unit |-> "EUR", receipt |-> 2],
                                        [name |-> <<"b">>, quantity |-> 2, price |-> 7,
                                         unit |-> "NOK", receipt |-> 1],
                                        [name |-> <<"a">>, quantity |-> 1, price |-> 4,
                                         unit |-> "NOK", receipt |-> 2],
                                        [name |-> <<"b">>, quantity |-> 1, price |-> 5,
                                         unit |-> "EUR", receipt |-> 2]>>]
          [] OTHER -> Directory]

InitSettingsFiles ==
    { NoSettingsFile, GarbageSettings, Settings(<<"a">>, FALSE), Settings(<<"a">>, TRUE),
      Settings(<<"b">>, FALSE), Settings(<<"d">>, FALSE) }

EmptyList == [list |-> <<>>, sel |-> None]

\* Dialog::init_model
InitDialog ==
    [hidden |-> TRUE,
     origin |-> [kind |-> "Receipt", store |-> StoreRow(0, <<>>, <<>>), date |-> Today]]

\* App::init
InitApp ==
    /\ fs = InitFs
    /\ settingsFile \in InitSettingsFiles
    /\ LET data == settingsFile
           opened == data.exists /\ data.valid /\ OpenOk(data.db_file)
           loaded == opened /\ PrepareOk(data.db_file)
       IN  /\ conn = IF opened THEN Some(data.db_file) ELSE None
           /\ analysisQ = IF opened THEN <<[type |-> "ConnectDb", db |-> data.db_file]>> ELSE <<>>
           /\ panicked = (opened /\ ~loaded)
           /\ stores = IF loaded THEN load_stores(fs[data.db_file], EmptyList) ELSE EmptyList
           /\ receipts = IF loaded THEN load_receipts(fs[data.db_file], EmptyList) ELSE EmptyList
           /\ settings_db_path = IF loaded THEN data.db_file ELSE <<>>
           /\ capitalize_item_names = IF loaded THEN data.capitalize_item_names ELSE FALSE
           /\ store_name_valid = IF loaded THEN connect("Invalid") ELSE "Invalid"
           /\ store_location_valid = IF loaded THEN connect("Invalid") ELSE "Invalid"
           /\ item_name_valid = IF loaded THEN connect("Invalid") ELSE "Invalid"
           /\ settings_db_path_status =
                 IF ~data.exists \/ (opened /\ ~loaded) THEN ""
                 ELSE IF ~data.valid THEN "'sqlbon_settings.json' file is not valid."
                 ELSE IF ~opened THEN "'{}' is not a database file."
                 ELSE "Successfully connected."
    /\ total = <<>>
    /\ reset_item_fields = FALSE
    /\ reset_store_fields = FALSE
    /\ settings_db_create_path = <<>>
    /\ settings_db_create_path_status = ""
    /\ selected_unit = "NOK"
    /\ appQ = <<>>
    /\ dialog = InitDialog
    /\ dialogQ = <<>>

(***************************************************************************)
(* The queries of the Analysis page and ./sqlbon_queries.json.             *)
(***************************************************************************)
RowEntry(name, ty, id) == [name |-> name, ty |-> ty, id |-> id]

\* Query::new
QueryNew == [sql |-> "", table_header |-> <<>>, query_input |-> <<>>]

\* Serialize for RowData: RowEntry.id is skipped
SerializeRows(rows) == [i \in 1..Len(rows) |-> [name |-> rows[i].name, ty |-> rows[i].ty]]

\* Serialize for Vec<(String, Query)>
SerializeQueries(qs) ==
    [i \in 1..Len(qs) |->
        [name |-> qs[i].name, sql |-> qs[i].query.sql,
         table_header |-> SerializeRows(qs[i].query.table_header),
         query_input |-> SerializeRows(qs[i].query.query_input)]]

\* read_queries gives every row its position as id
NumberRows(rows) == [i \in 1..Len(rows) |-> RowEntry(rows[i].name, rows[i].ty, i - 1)]

NoQueriesFile == [exists |-> FALSE, valid |-> FALSE, list |-> <<>>]
GarbageQueries == [exists |-> TRUE, valid |-> FALSE, list |-> <<>>]
QueriesFile(list) == [exists |-> TRUE, valid |-> TRUE, list |-> list]

\* read_queries().ok().unwrap_or_default()
read_queries(file) ==
    IF file.exists /\ file.valid
    THEN [i \in 1..Len(file.list) |->
             [name |-> file.list[i].name,
              query |-> [sql |-> file.list[i].sql,
                         table_header |-> NumberRows(file.list[i].table_header),
                         query_input |-> NumberRows(file.list[i].query_input)]]]
    ELSE <<>>

\* save_queries; the file can be opened and written
save_queries(qs) == queriesFile' = QueriesFile(SerializeQueries(qs))

\* the queries the edit dialog can hand back: SQL, output columns, inputs
StoresQuery ==
    [sql |-> "stores",
     table_header |-> <<RowEntry("name", "String", 1), RowEntry("id", "Number", 0)>>,
     query_input |-> <<>>]
MixedQuery ==
    [sql |-> "mixed", table_header |-> <<RowEntry("name", "String", 0)>>, query_input |-> <<>>]
ByIdQuery ==
    [sql |-> "by_id", table_header |-> <<RowEntry("name", "Date", 0)>>,
     query_input |-> <<RowEntry("id", "Number", 0)>>]
BadQuery == [sql |-> "bad", table_header |-> <<>>, query_input |-> <<>>]
WideQuery ==
    [sql |-> "stores",
     table_header |-> <<RowEntry("name", "String", 0), RowEntry("id", "Number", 1),
                        RowEntry("day", "Date", 2)>>,
     query_input |-> <<>>]
DialogQueries == { StoresQuery, MixedQuery, ByIdQuery, BadQuery, WideQuery }

QueryNames == { <<"q">>, <<"r">> }
QueryNameTexts == { <<>>, <<" ", "q">>, <<"r">> }

InitQueriesFiles ==
    { NoQueriesFile, GarbageQueries,
      QueriesFile(SerializeQueries(<<[name |-> <<"q">>, query |-> StoresQuery]>>)) }

\* the names a query can be shown under; the empty text is InputValue's first show
ShownNames == QueryNames \cup { <<>> }

\* InputValue::init: nothing saved, nothing displayed
InitInputValue ==
    input_values = [data |-> [k \in ShownNames |-> None], values |-> <<>>, show |-> <<>>]

\* Type::init: no row; validity is the last ValidityChanged sent to the parent
InitType ==
    types = [ty |-> <<>>, set_row_data |-> None, is_filled |-> FALSE,
             has_duplicates |-> FALSE, validity |-> None]

\* Analysis::init
InitAnalysis(file) ==
    /\ InitInputValue
    /\ InitType
    /\ queriesFile = file
    /\ queries = read_queries(file)
    /\ analysis = None
    /\ analysisConn = None
    /\ new_button_valid = FALSE
    /\ selected_query = None
    /\ query_selected = FALSE
    /\ query_error = ""
    /\ query_dialog = None

Init == InitApp /\ InitAnalysis(NoQueriesFile)

\* the same start, whatever ./sqlbon_queries.json holds
InitQueries == InitApp /\ \E file \in InitQueriesFiles : InitAnalysis(file)

(***************************************************************************)
(* App::update(m), one operator per message: what handling m does to every *)
(* variable but App's own queue.  Every handler starts by clearing         *)
(* reset_item_fields and reset_store_fields.                               *)
(***************************************************************************)
Db == fs[conn[1]]

\* the connected file still holds the tables
DbOk == Db.kind = "db"

\* Msg::AddStore
AddStore(store) ==
    /\ reset_item_fields' = FALSE
    /\ LET store_name == trim(store.name)
           store_location == trim(store.location)
       IN  IF conn # None /\ store_name # <<>> /\ store_location # <<>> /\ DbOk
           THEN IF StoreExists(Db, store_name, store_location)
                THEN /\ dialogQ' = Append(dialogQ,
                            [type |-> "Show",
                             origin |-> [kind |-> "Store", name |-> store_name,
                                         location |-> store_location]])
                     /\ reset_store_fields' = FALSE
                     /\ UNCHANGED <<fs, stores>>
                ELSE \E ok \in InsertOutcomes(Db, Db.Store, MaxStores) :
                        IF ok
                        THEN /\ fs' = [fs EXCEPT ![conn[1]] =
                                            InsertStore(@, store_name, store_location)]
                             /\ stores' = load_stores(fs'[conn[1]], stores)
                             /\ reset_store_fields' = TRUE
                             /\ UNCHANGED dialogQ
                        ELSE /\ reset_store_fields' = FALSE
                             /\ UNCHANGED <<fs, stores, dialogQ>>
           ELSE /\ reset_store_fields' = FALSE
                /\ UNCHANGED <<fs, stores, dialogQ>>
    /\ UNCHANGED <<settingsFile, conn, receipts, total, uiSettings, selected_unit, uiNames,
                   dialog, analysisVars, panicked>>

\* Msg::ForceAddStore
ForceAddStore(store) ==
    /\ reset_item_fields' = FALSE
    /\ IF conn # None /\ DbOk
           THEN \E ok \in InsertOutcomes(Db, Db.Store, MaxStores) :
                   IF ok
                   THEN /\ fs' = [fs EXCEPT ![conn[1]] =
                                       InsertStore(@, store.name, store.location)]
                        /\ stores' = load_stores(fs'[conn[1]], stores)
                        /\ reset_store_fields' = TRUE
                   ELSE /\ reset_store_fields' = FALSE
                        /\ UNCHANGED <<fs, stores>>
           ELSE /\ reset_store_fields' = FALSE
                /\ UNCHANGED <<fs, stores>>
    /\ UNCHANGED <<settingsFile, conn, receipts, total, uiSettings, selected_unit, uiNames,
                   dialogVars, analysisVars, panicked>>

\* Msg::AddReceipt
AddReceipt(receipt) ==
    /\ reset_item_fields' = FALSE /\ reset_store_fields' = FALSE
    /\ IF conn # None /\ receipt.store_idx # None
           THEN IF receipt.store_idx[1] >= Len(stores.list)
                THEN /\ panicked' = TRUE
                     /\ UNCHANGED <<fs, receipts, dialogQ>>
                ELSE LET store == stores.list[receipt.store_idx[1] + 1]
                         receipt_date == format_F(receipt.date)
                     IN  /\ UNCHANGED panicked
                         /\ IF ~DbOk
                            THEN UNCHANGED <<fs, receipts, dialogQ>>
                            ELSE IF ReceiptExists(Db, store.id, receipt_date)
                            THEN /\ dialogQ' = Append(dialogQ,
                                        [type |-> "Show",
                                         origin |-> [kind |-> "Receipt", store |-> store,
                                                     date |-> receipt.date]])
                                 /\ UNCHANGED <<fs, receipts>>
                            ELSE \E ok \in InsertOutcomes(Db, Db.Receipt, MaxReceipts) :
                                    IF ok
                                    THEN /\ fs' = [fs EXCEPT ![conn[1]] =
                                                    InsertReceipt(@, store.id, receipt_date)]
                                         /\ receipts' = load_receipts(fs'[conn[1]], receipts)
                                         /\ UNCHANGED dialogQ
                                    ELSE UNCHANGED <<fs, receipts, dialogQ>>
           ELSE UNCHANGED <<fs, receipts, dialogQ, panicked>>
    /\ UNCHANGED <<settingsFile, conn, stores, total, uiSettings, selected_unit, uiNames,
                   dialog, analysisVars>>

\* Msg::ForceAddReceipt
ForceAddReceipt(m) ==
    /\ reset_item_fields' = FALSE /\ reset_store_fields' = FALSE
    /\ IF conn # None /\ DbOk
           THEN \E ok \in InsertOutcomes(Db, Db.Receipt, MaxReceipts) :
                   IF ok
                   THEN /\ fs' = [fs EXCEPT ![conn[1]] =
                                       InsertReceipt(@, m.store_id, m.date_str)]
                        /\ receipts' = load_receipts(fs'[conn[1]], receipts)
                   ELSE UNCHANGED <<fs, receipts>>
           ELSE UNCHANGED <<fs, receipts>>
    /\ UNCHANGED <<settingsFile, conn, stores, total, uiSettings, selected_unit, uiNames,
                   dialogVars, analysisVars, panicked>>

\* Msg::AddItem
AddItem(item) ==
    /\ reset_store_fields' = FALSE
    /\ LET item_name == trim(item.name)
       IN  IF conn # None /\ item.receipt_idx # None /\ item_name # <<>>
           THEN IF item.receipt_idx[1] >= Len(receipts.list)
                THEN /\ panicked' = TRUE
                     /\ reset_item_fields' = FALSE
                     /\ UNCHANGED <<fs, total>>
                ELSE LET receipt == receipts.list[item.receipt_idx[1] + 1]
                         name == IF capitalize_item_names THEN to_uppercase(item_name)
                                 ELSE item_name
                     IN  IF ~DbOk
                         THEN \* the insert fails and Total::for_receipt unwraps a failed prepare
                              /\ panicked' = TRUE
                              /\ reset_item_fields' = FALSE
                              /\ UNCHANGED <<fs, total>>
                         ELSE \E ok \in InsertOutcomes(Db, Db.Item, MaxItems) :
                                 /\ fs' = IF ok
                                          THEN [fs EXCEPT ![conn[1]] =
                                                  InsertItem(@, name, item.quantity, item.price,
                                                             item.unit, receipt.id)]
                                          ELSE fs
                                 /\ reset_item_fields' = ok
                                 /\ total' = for_receipt(fs'[conn[1]], receipt.id)
                                 /\ UNCHANGED panicked
           ELSE /\ reset_item_fields' = FALSE
                /\ UNCHANGED <<fs, total, panicked>>
    /\ UNCHANGED <<settingsFile, conn, stores, receipts, uiSettings, selected_unit, uiNames,
                   dialogVars, analysisVars>>

\* Msg::ReceiptChanged
ReceiptChanged(receipt_idx) ==
    /\ reset_item_fields' = FALSE /\ reset_store_fields' = FALSE
    /\ IF conn # None /\ receipt_idx # None
           THEN IF receipt_idx[1] >= Len(receipts.list) \/ ~DbOk
                THEN panicked' = TRUE /\ UNCHANGED total
                ELSE /\ total' = for_receipt(Db, receipts.list[receipt_idx[1] + 1].id)
                     /\ UNCHANGED panicked
           ELSE UNCHANGED <<total, panicked>>
    /\ UNCHANGED <<dbVars, conn, stores, receipts, uiSettings, selected_unit, uiNames,
                   dialogVars, analysisVars>>

\* Msg::SelectUnit
SelectUnit(unit) ==
    /\ reset_item_fields' = FALSE /\ reset_store_fields' = FALSE
    /\ selected_unit' = unit
    /\ UNCHANGED <<dbVars, conn, uiLists, uiSettings, uiNames, dialogVars, analysisVars,
                   panicked>>

\* Msg::OpenDbDialog: the file dialog returns a path or nothing
OpenDbDialog ==
    /\ reset_item_fields' = FALSE /\ reset_store_fields' = FALSE
    /\ \E path \in {None} \cup { Some(f) : f \in Paths } :
          settings_db_path' = IF path # None THEN path[1] ELSE settings_db_path
    /\ UNCHANGED <<dbVars, conn, uiLists, settings_db_path_status, settings_db_create_path,
                   settings_db_create_path_status, capitalize_item_names, selected_unit,
                   uiNames, dialogVars, analysisVars, panicked>>

\* Msg::OpenCreateDbDialog
OpenCreateDbDialog ==
    /\ reset_item_fields' = FALSE /\ reset_store_fields' = FALSE
    /\ \E path \in {None} \cup { Some(f) : f \in Paths } :
          settings_db_create_path' = IF path # None THEN path[1] ELSE settings_db_create_path
    /\ UNCHANGED <<dbVars, conn, uiLists, settings_db_path, settings_db_path_status,
                   settings_db_create_path_status, capitalize_item_names, selected_unit,
                   uiNames, dialogVars, analysisVars, panicked>>

\* Msg::ConnectDb
ConnectDb ==
    /\ reset_item_fields' = FALSE /\ reset_store_fields' = FALSE
    /\ LET path == trim(settings_db_path)
       IN  IF path = <<>>
           THEN /\ settings_db_path_status' = "No File Selected."
                /\ UNCHANGED <<settingsFile, conn, stores, receipts, uiNames, analysisQ,
                               panicked>>
           ELSE IF ~OpenOk(path)
           THEN /\ settings_db_path_status' = "Selected File is not a valid Database."
                /\ UNCHANGED <<settingsFile, conn, stores, receipts, uiNames, analysisQ,
                               panicked>>
           ELSE /\ analysisQ' = Append(analysisQ, [type |-> "ConnectDb", db |-> path])
                /\ conn' = Some(path)
                /\ IF ~PrepareOk(path)
                   THEN \* load_stores unwraps a failed prepare
                        /\ panicked' = TRUE
                        /\ UNCHANGED <<settingsFile, stores, receipts, uiNames,
                                       settings_db_path_status>>
                   ELSE /\ stores' = load_stores(fs[path], stores)
                        /\ receipts' = load_receipts(fs[path], receipts)
                        /\ \E outcome \in WriteOutcomes :
                              save_settings(outcome, capitalize_item_names)
                        /\ store_name_valid' = connect(store_name_valid)
                        /\ store_location_valid' = connect(store_location_valid)
                        /\ item_name_valid' = connect(item_name_valid)
                        /\ UNCHANGED panicked
    /\ UNCHANGED <<fs, total, settings_db_path, settings_db_create_path,
                   settings_db_create_path_status, capitalize_item_names, selected_unit,
                   dialogVars, analysisConn, queryVars, childVars>>

\* what File::create, Connection::open and the three schema statements can do
CreateOutcomes == {"ok", "open_failed", "init_failed"}

\* Msg::CreateDb
CreateDb ==
    /\ reset_item_fields' = FALSE /\ reset_store_fields' = FALSE
    /\ LET db_path == trim(settings_db_create_path)
       IN  IF db_path = <<>>
           THEN /\ settings_db_create_path_status' = "No File Selected."
                /\ UNCHANGED <<fs, settings_db_path>>
           ELSE IF ~CreateOk(db_path)
           THEN /\ settings_db_create_path_status' = "Could not create/truncate the file."
                /\ UNCHANGED <<fs, settings_db_path>>
           ELSE \E outcome \in CreateOutcomes :
                   CASE outcome = "ok" ->
                          /\ fs' = [fs EXCEPT ![db_path] = EmptyDb]
                          /\ settings_db_path' = db_path
                          /\ settings_db_create_path_status' = "Database created successfully."
                     [] outcome = "init_failed" ->
                          /\ fs' = [fs EXCEPT ![db_path] = NoFile]
                          /\ settings_db_create_path_status' =
                                "Could not initialize the database."
                          /\ UNCHANGED settings_db_path
                     [] OTHER ->
                          /\ fs' = [fs EXCEPT ![db_path] = JunkFile]
                          /\ settings_db_create_path_status' = "Could not open the database."
                          /\ UNCHANGED settings_db_path
    /\ UNCHANGED <<settingsFile, conn, uiLists, settings_db_path_status,
                   settings_db_create_path, capitalize_item_names, selected_unit, uiNames,
                   dialogVars, analysisVars, panicked>>

\* Msg::CapitalizeItem
CapitalizeItem(cap) ==
    /\ reset_item_fields' = FALSE /\ reset_store_fields' = FALSE
    /\ capitalize_item_names' = cap
    /\ \E outcome \in WriteOutcomes : save_settings(outcome, cap)
    /\ UNCHANGED <<fs, conn, uiLists, settings_db_path, settings_db_create_path,
                   settings_db_create_path_status, selected_unit, uiNames, dialogVars,
                   analysisVars, panicked>>

validate(text, status) ==
    IF trim(text) # <<>> THEN name_non_empty(status) ELSE name_empty(status)

\* Msg::ValidateStoreName
ValidateStoreName(name) ==
    /\ reset_item_fields' = FALSE /\ reset_store_fields' = FALSE
    /\ store_name_valid' = validate(name, store_name_valid)
    /\ UNCHANGED <<dbVars, conn, uiLists, uiSettings, selected_unit, store_location_valid,
                   item_name_valid, dialogVars, analysisVars, panicked>>

\* Msg::ValidateStoreLocation
ValidateStoreLocation(location) ==
    /\ reset_item_fields' = FALSE /\ reset_store_fields' = FALSE
    /\ store_location_valid' = validate(location, store_location_valid)
    /\ UNCHANGED <<dbVars, conn, uiLists, uiSettings, selected_unit, store_name_valid,
                   item_name_valid, dialogVars, analysisVars, panicked>>

\* Msg::ValidateItemName
ValidateItemName(name) ==
    /\ reset_item_fields' = FALSE /\ reset_store_fields' = FALSE
    /\ item_name_valid' = validate(name, item_name_valid)
    /\ UNCHANGED <<dbVars, conn, uiLists, uiSettings, selected_unit, store_name_valid,
                   store_location_valid, dialogVars, analysisVars, panicked>>

(***************************************************************************)
(* add_duplicate_alert::Dialog::update.                                    *)
(***************************************************************************)
DialogHead(t) == ~panicked /\ dialogQ # <<>> /\ Head(dialogQ).type = t

\* the message of Accept with the date written without zero padding
force_add_unpadded(origin) ==
    IF origin.kind = "Receipt"
    THEN [type |-> "ForceAddReceipt", store_id |-> origin.store.id,
          date_str |-> << digit(origin.date.year \div 1000), digit(origin.date.year \div 100),
                          digit(origin.date.year \div 10), digit(origin.date.year), "-",
                          digit(origin.date.month), "-", digit(origin.date.day) >>]
    ELSE [type |-> "ForceAddStore", name |-> origin.name, location |-> origin.location]

\* the message DialogMsg::Accept sends to the parent
force_add(origin) ==
    IF origin.kind = "Receipt"
    THEN [type |-> "ForceAddReceipt", store_id |-> origin.store.id,
          date_str |-> format_F(origin.date)]
    ELSE [type |-> "ForceAddStore", name |-> origin.name, location |-> origin.location]

\* DialogMsg::Show
DialogShow ==
    /\ DialogHead("Show")
    /\ dialogQ' = Tail(dialogQ)
    /\ dialog' = [hidden |-> FALSE, origin |-> Head(dialogQ).origin]
    /\ UNCHANGED <<dbVars, conn, uiLists, uiReset, uiSettings, selected_unit, uiNames, appQ,
                   analysisVars, panicked>>

\* DialogMsg::Accept
DialogAccept ==
    /\ DialogHead("Accept")
    /\ dialogQ' = Tail(dialogQ)
    /\ dialog' = [dialog EXCEPT !.hidden = TRUE]
    /\ appQ' = Append(appQ, force_add(dialog.origin))
    /\ UNCHANGED <<dbVars, conn, uiLists, uiReset, uiSettings, selected_unit, uiNames,
                   analysisVars, panicked>>

\* DialogMsg::Cancel
DialogCancel ==
    /\ DialogHead("Cancel")
    /\ dialogQ' = Tail(dialogQ)
    /\ dialog' = [dialog EXCEPT !.hidden = TRUE]
    /\ UNCHANGED <<dbVars, conn, uiLists, uiReset, uiSettings, selected_unit, uiNames, appQ,
                   analysisVars, panicked>>

\* connect_response: the buttons of the visible dialog
UserRespond ==
    /\ ~panicked
    /\ ~dialog.hidden
    /\ dialogQ = <<>>
    /\ \E t \in {"Accept", "Cancel"} : dialogQ' = Append(dialogQ, [type |-> t])
    /\ UNCHANGED <<dbVars, conn, uiLists, uiReset, uiSettings, selected_unit, uiNames, appQ,
                   dialog, analysisVars, panicked>>

(***************************************************************************)
(* Analysis::update.                                                       *)
(***************************************************************************)
AnalysisHead(t) == ~panicked /\ analysisQ # <<>> /\ Head(analysisQ).type = t

\* AnalysisMsg::ConnectDb
AnalysisConnectDb ==
    /\ AnalysisHead("ConnectDb")
    /\ analysisQ' = Tail(analysisQ)
    /\ analysisConn' = Some(Head(analysisQ).db)
    /\ UNCHANGED <<dbVars, conn, uiLists, uiReset, uiSettings, selected_unit, uiNames, appQ,
                   dialogVars, queryVars, childVars, panicked>>

appState == <<dbVars, conn, uiLists, uiReset, uiSettings, selected_unit, uiNames, appQ,
              dialogVars, analysisConn, analysisQ>>

\* the values SQLite hands back, and the values of the result table
Text(s) == [ty |-> "Text", s |-> s, n |-> 0]
Integer(n) == [ty |-> "Integer", s |-> <<>>, n |-> n]
ColumnTypeValue(ty, s, n) == [ty |-> ty, s |-> s, n |-> n]

Ok(data) == [ok |-> TRUE, data |-> data, err |-> ""]
Err(err) == [ok |-> FALSE, data |-> <<>>, err |-> err]

\* what get_input_values can return: the values of the input page
InputValueSets ==
    { <<>>,
      <<[name |-> <<"i", "d">>, value |-> ColumnTypeValue("Number", <<>>, 1)]>>,
      <<[name |-> <<"z">>, value |-> ColumnTypeValue("String", <<"a">>, 0)]>> }

\* the named parameters of a statement
Parameters(sql) == IF sql = "by_id" THEN { <<":", "i", "d">> } ELSE {}

\* Connection::prepare: "bad" is no SQL; the empty statement of Query::new is accepted
\* or not; a statement over Store needs the table
PrepareOutcomes(db, sql) ==
    CASE sql = "bad" -> {FALSE}
      [] sql = "" -> {TRUE, FALSE}
      [] OTHER -> {db.kind = "db"}

\* the rows a prepared statement returns:
\*   "stores": SELECT name, id FROM Store ORDER BY id
\*   "mixed":  SELECT CASE id WHEN 1 THEN name ELSE id END FROM Store ORDER BY id
\*   "by_id":  SELECT name FROM Store WHERE id = :id   (an unbound :id is NULL)
Rows(db, sql, input_data) ==
    LET S == SelectStores(db)
        Bound(row) == \E k \in 1..Len(input_data) :
                         /\ input_data[k].name = <<":", "i", "d">>
                         /\ input_data[k].value.ty = "Number"
                         /\ input_data[k].value.n = row.id
        Matching == SelectSeq(S, Bound)
    IN  CASE sql = "stores" -> [i \in 1..Len(S) |-> <<Text(S[i].name), Integer(S[i].id)>>]
          [] sql = "mixed" -> [i \in 1..Len(S) |->
                                  <<IF S[i].id = 1 THEN Text(S[i].name) ELSE Integer(S[i].id)>>]
          [] sql = "by_id" -> [i \in 1..Len(Matching) |-> <<Text(Matching[i].name)>>]
          [] OTHER -> <<>>

\* Row::get(i) as the Rust type of ty, and the message of its failure
get(row, i, ty) ==
    IF i >= Len(row)
    THEN Err("The query has less columns than the amount of given output types.")
    ELSE IF ty = "Number"
    THEN IF row[i + 1].ty = "Integer" THEN Ok(ColumnTypeValue("Number", <<>>, row[i + 1].n))
         ELSE Err("Mismatch between the output type and the query column type")
    ELSE IF row[i + 1].ty = "Text" THEN Ok(ColumnTypeValue(ty, row[i + 1].s, 0))
         ELSE Err("Mismatch between the output type and the query column type")

\* the inner loop of exec_query: the columns of one row, from column i on
RECURSIVE ConvertRow(_, _, _)
ConvertRow(row, table_header, i) ==
    IF i >= Len(table_header) THEN Ok(<<>>)
    ELSE LET v == get(row, i, table_header[i + 1].ty)
         IN  IF ~v.ok THEN v
             ELSE LET rest == ConvertRow(row, table_header, i + 1)
                  IN  IF ~rest.ok THEN rest ELSE Ok(<<v.data>> \o rest.data)

\* the outer loop, were it to skip the rows that do not convert
RECURSIVE ConvertRowsSkipping(_, _)
ConvertRowsSkipping(rows, table_header) ==
    IF rows = <<>> THEN Ok(<<>>)
    ELSE LET values == ConvertRow(Head(rows), table_header, 0)
             rest == ConvertRowsSkipping(Tail(rows), table_header)
         IN  IF ~values.ok THEN rest ELSE Ok(<<values.data>> \o rest.data)

\* the outer loop of exec_query: the rows appended to the new store
RECURSIVE ConvertRows(_, _)
ConvertRows(rows, table_header) ==
    IF rows = <<>> THEN Ok(<<>>)
    ELSE LET values == ConvertRow(Head(rows), table_header, 0)
         IN  IF ~values.ok THEN values
             ELSE LET rest == ConvertRows(Tail(rows), table_header)
                  IN  IF ~rest.ok THEN rest ELSE Ok(<<values.data>> \o rest.data)

\* Analysis::exec_query
exec_query(db, query_id, query, values, prepared) ==
    LET input_data == [k \in 1..Len(values) |->
                          [name |-> <<":">> \o values[k].name, value |-> values[k].value]]
        store == ConvertRows(Rows(db, query.sql, input_data), query.table_header)
    IN  IF ~prepared THEN Err("Unknown error")
        ELSE IF \E k \in 1..Len(input_data) : input_data[k].name \notin Parameters(query.sql)
        THEN Err("The query did not expected to receive a parameter")
        ELSE IF ~store.ok THEN store
        ELSE Ok([store |-> store.data, query_id |-> query_id])

\* AnalysisMsg::PopulateModel
PopulateModel(id, values) ==
    /\ IF analysisConn # None /\ id < Len(queries)
       THEN \E prepared \in PrepareOutcomes(fs[analysisConn[1]], queries[id + 1].query.sql) :
               LET r == exec_query(fs[analysisConn[1]], id, queries[id + 1].query, values,
                                   prepared)
               IN  IF r.ok
                   THEN analysis' = Some(r.data) /\ query_error' = ""
                   ELSE query_error' = r.err /\ UNCHANGED analysis
       ELSE UNCHANGED <<analysis, query_error>>
    /\ UNCHANGED <<appState, childVars, queriesFile, queries, selected_query, query_selected,
                   new_button_valid, query_dialog, panicked>>

\* AnalysisMsg::EditQueryResult; the dialog that sent it closes
EditQueryResult(query, name, id) ==
    /\ queries' = IF id < Len(queries)
                  THEN [queries EXCEPT ![id + 1] = [name |-> name, query |-> query]]
                  ELSE queries
    /\ selected_query' = Some(id)
    /\ save_queries(queries')
    /\ UNCHANGED <<appState, childVars, analysis, query_error, query_selected, new_button_valid, panicked>>

\* AnalysisMsg::NewQuery
NewQuery(name) ==
    /\ IF \A i \in 1..Len(queries) : queries[i].name # name
       THEN /\ queries' = Append(queries, [name |-> name, query |-> QueryNew])
            /\ selected_query' = Some(Len(queries') - 1)
            /\ query_dialog' = Some(Len(queries') - 1)
       ELSE UNCHANGED <<queries, selected_query, query_dialog>>
    /\ UNCHANGED <<appState, childVars, queriesFile, analysis, query_error, query_selected,
                   new_button_valid, panicked>>

\* AnalysisMsg::EditQuery
EditQuery(id) ==
    /\ IF id < Len(queries)
       THEN query_dialog' = Some(id) /\ UNCHANGED panicked
       ELSE panicked' = TRUE /\ UNCHANGED query_dialog
    /\ UNCHANGED <<appState, childVars, queriesFile, queries, analysis, query_error, selected_query,
                   query_selected, new_button_valid>>

\* AnalysisMsg::DeleteQuery
DeleteQuery(id) ==
    /\ IF id < Len(queries)
       THEN /\ queries' = SubSeq(queries, 1, id) \o SubSeq(queries, id + 2, Len(queries))
            /\ save_queries(queries')
            /\ UNCHANGED panicked
       ELSE panicked' = TRUE /\ UNCHANGED <<queries, queriesFile>>
    /\ UNCHANGED <<appState, childVars, analysis, query_error, selected_query, query_selected,
                   new_button_valid, query_dialog>>

\* AnalysisMsg::QuerySelected
QuerySelected(active) ==
    /\ selected_query' = active
    /\ query_selected' = (active # None)
    /\ UNCHANGED <<appState, childVars, queriesFile, queries, analysis, query_error, new_button_valid,
                   query_dialog, panicked>>

\* AnalysisMsg::NewQueryNameChanged
NewQueryNameChanged(name) ==
    /\ new_button_valid' = (/\ trim(name) # <<>>
                            /\ \A i \in 1..Len(queries) : queries[i].name # trim(name))
    /\ UNCHANGED <<appState, childVars, queriesFile, queries, analysis, query_error, selected_query,
                   query_selected, query_dialog, panicked>>

(***************************************************************************)
(* The InputValue component (src/src/analysis/input_values.rs): the inputs *)
(* of the query shown.  input_values.data maps a query's name to the       *)
(* values saved for it, if any; input_values.values are the rows           *)
(* displayed, each a name and a value; input_values.show is the name of    *)
(* the query they belong to.                                               *)
(***************************************************************************)
ColumnTypes == { "String", "Number", "Date" }

\* ColumnTypeValue::is_column_type
is_column_type(value, ty) == value.ty = ty

\* From<ColumnType> for ColumnTypeValue; now is what DateTime::now_local returns
FromColumnType(ty, now) ==
    CASE ty = "String" -> ColumnTypeValue("String", <<>>, 0)
      [] ty = "Number" -> ColumnTypeValue("Number", <<>>, 0)
      [] ty = "Date" -> ColumnTypeValue("Date", format_F(now), 0)

\* the rows left in the order they came
sort_by_key_skipped(rows) == rows

\* Vec::sort_by_key(|row_entry| row_entry.id): ascending, equal ids keep their order
RECURSIVE sort_by_key(_)
sort_by_key(rows) ==
    IF rows = <<>> THEN <<>>
    ELSE LET rest == sort_by_key(Tail(rows))
             Less(r) == r.id < Head(rows).id
             NotLess(r) == ~Less(r)
         IN  SelectSeq(rest, Less) \o <<Head(rows)>> \o SelectSeq(rest, NotLess)

\* old_data.get(id): the saved value at a position counted from 0, if there is one
old_data_get(v, i) == IF i < Len(v) THEN Some(v[i + 1]) ELSE None

\* InputValueMsg::Replicate(name, row_data)
Replicate(name, row_data, now) ==
    LET v == input_values.values
        old_name == input_values.show
        \* save current data
        saved == [input_values.data EXCEPT ![old_name] = Some([i \in 1..Len(v) |-> v[i].value])]
        sorted == sort_by_key(row_data)
        row_len == Len(sorted)
        current_len == Len(v)
        \* load old data
        Vacant ==
            LET values == [i \in 1..row_len |-> FromColumnType(sorted[i].ty, now)]
            IN  [data |-> [saved EXCEPT ![name] = Some(values)],
                 values |-> [i \in 1..row_len |-> [name |-> sorted[i].name, value |-> values[i]]],
                 show |-> name]
        Occupied ==
            LET old_data == saved[name][1]
                v_ty(row_entry) ==
                    LET value == old_data_get(old_data, row_entry.id)
                    IN  IF value # None /\ is_column_type(value[1], row_entry.ty)
                        THEN value[1]
                        ELSE FromColumnType(row_entry.ty, now)
                values == [i \in 1..row_len |-> v_ty(sorted[i])]
                longest == IF current_len > row_len THEN current_len ELSE row_len
                set == [i \in 1..longest |->
                          IF i <= row_len THEN [name |-> sorted[i].name, value |-> values[i]]
                          ELSE v[i]]
            IN  [data |-> [saved EXCEPT ![name] = Some(values)],
                 values |-> SubSeq(set, 1, row_len),
                 show |-> name]
    IN  /\ input_values' = IF saved[name] = None THEN Vacant ELSE Occupied
        /\ UNCHANGED <<appState, queryVars, types, panicked>>

\* InputValue::get_input_values
get_input_values(model) ==
    [i \in 1..Len(model.values) |-> <<model.values[i].name, model.values[i].value>>]

\* what the widget of a displayed value can send: the entry its trimmed text, the spin
\* button its number, the calendar the day selected
ValueTexts == { <<" ", "b">> }
ValueNumbers == { 7 }
ValueDays == { Date1 }
ValueInputs(value) ==
    CASE value.ty = "String" -> { ColumnTypeValue("String", trim(t), 0) : t \in ValueTexts }
      [] value.ty = "Number" -> { ColumnTypeValue("Number", <<>>, n) : n \in ValueNumbers }
      [] value.ty = "Date" -> { ColumnTypeValue("Date", format_F(d), 0) : d \in ValueDays }

\* Value::update: row i (counted from 0) takes the value its widget sent
ValueUpdate(i, message) ==
    /\ input_values' = [input_values EXCEPT !.values[i + 1].value = message]
    /\ UNCHANGED <<appState, queryVars, types, panicked>>

\* the row data a Replicate can carry
RowDatas ==
    { <<>>,
      <<RowEntry("id", "Number", 0)>>,
      <<RowEntry("day", "Date", 1), RowEntry("id", "Number", 0)>>,
      <<RowEntry("id", "String", 0), RowEntry("day", "Date", 1)>>,
      <<RowEntry("z", "String", 1)>> }

\* the days DateTime::now_local can return
Clock == { Today, Date2 }

RecvReplicate ==
    /\ ~panicked
    /\ \E name \in QueryNames, row_data \in RowDatas, now \in Clock :
          Replicate(name, row_data, now)

EditValue ==
    /\ ~panicked
    /\ \E i \in 0..(Len(input_values.values) - 1) :
          \E message \in ValueInputs(input_values.values[i + 1].value) :
             ValueUpdate(i, message)

(***************************************************************************)
(* The Type component (src/src/analysis/type_component.rs): the rows of a  *)
(* type editor.  types.ty are the rows in display order.  A button of a    *)
(* row names the row by its DynamicIndex, which is the row's position when *)
(* the message is handled.  The NameChanged a row sends to the Type        *)
(* component is handled in the step of the edit; the texts the view sets   *)
(* after a Replicate arrive as such edits.  types.validity is the last     *)
(* ValidityChanged sent to the parent.                                     *)
(***************************************************************************)
\* Row::new
RowNew == [name |-> <<>>, ty |-> "String", duplicate |-> FALSE, up |-> FALSE, down |-> FALSE]

\* the (idx, up, down) table of restore_move_valid for a list of len rows
MoveValid(len) ==
    CASE len = 0 -> <<>>
      [] len = 1 -> << <<0, FALSE, FALSE>> >>
      [] len = 2 -> << <<0, FALSE, TRUE>>, <<1, TRUE, FALSE>> >>
      [] len = 3 -> << <<0, FALSE, TRUE>>, <<1, TRUE, TRUE>>, <<2, TRUE, FALSE>> >>
      [] OTHER -> << <<0, FALSE, TRUE>>, <<1, TRUE, TRUE>>, <<-2, TRUE, TRUE>>,
                     <<-1, TRUE, FALSE>> >>

RECURSIVE set_move_valid(_, _)
set_move_valid(rows, table) ==
    IF table = <<>> THEN rows
    ELSE LET e == Head(table)
             idx == IF e[1] < 0 THEN Len(rows) + e[1] ELSE e[1]
         IN  set_move_valid([rows EXCEPT ![idx + 1].up = e[2], ![idx + 1].down = e[3]],
                            Tail(table))

\* RestoreMoveValid::restore_move_valid
restore_move_valid(rows) == set_move_valid(rows, MoveValid(Len(rows)))

\* the duplicate flag check_duplicates gives row i (counted from 1)
is_duplicate(rows, i) ==
    /\ trim(rows[i].name) # <<>>
    /\ \E j \in 1..(i - 1) : trim(rows[j].name) = trim(rows[i].name)

\* RestoreMoveValid::check_duplicates: the rows with their duplicate flags set, and the
\* value returned
check_duplicates(rows) ==
    [rows |-> [i \in 1..Len(rows) |-> [rows[i] EXCEPT !.duplicate = is_duplicate(rows, i)]],
     has_duplicates |-> \E i \in 1..Len(rows) : is_duplicate(rows, i)]

\* RestoreMoveValid::is_filled
is_filled(rows) == \A i \in 1..Len(rows) : trim(rows[i].name) # <<>>

\* FactoryVecDeque::insert, remove and move_to, positions counted from 0
insert(rows, idx, row) == SubSeq(rows, 1, idx) \o <<row>> \o SubSeq(rows, idx + 1, Len(rows))
remove(rows, idx) == SubSeq(rows, 1, idx) \o SubSeq(rows, idx + 2, Len(rows))
move_to(rows, idx, new_idx) == insert(remove(rows, idx), new_idx, rows[idx + 1])

\* what every arm of Type::update leaves alone
TypeFrame == UNCHANGED <<appState, queryVars, input_values>>

\* the end of TypeMsg::Add and TypeMsg::AddAbove
Added(rows) ==
    /\ types' = [types EXCEPT !.ty = restore_move_valid(rows),
                              !.set_row_data = None,
                              !.is_filled = FALSE,
                              !.validity = IF types.is_filled THEN Some("NotFilled") ELSE @]
    /\ UNCHANGED panicked
    /\ TypeFrame

\* TypeMsg::Add
TypeAdd == Added(Append(types.ty, RowNew))

\* TypeMsg::AddAbove
TypeAddAbove(idx) == Added(insert(types.ty, idx, RowNew))

\* TypeMsg::Delete
TypeDelete(idx) ==
    LET rows == restore_move_valid(remove(types.ty, idx))
        checked == check_duplicates(rows)
        filled == is_filled(rows)
    IN  /\ IF rows = <<>>
           THEN /\ types' = [types EXCEPT !.ty = rows, !.set_row_data = None,
                                          !.is_filled = FALSE, !.validity = Some("NoRows")]
                /\ UNCHANGED panicked
           ELSE CASE ~types.is_filled /\ ~filled ->
                       /\ types' = [types EXCEPT !.ty = checked.rows, !.set_row_data = None]
                       /\ UNCHANGED panicked
                  [] ~types.is_filled /\ filled ->
                       /\ types' = [types EXCEPT
                                       !.ty = checked.rows, !.set_row_data = None,
                                       !.is_filled = TRUE,
                                       !.has_duplicates = checked.has_duplicates,
                                       !.validity = IF checked.has_duplicates
                                                    THEN Some("Duplicates") ELSE Some("Valid")]
                       /\ UNCHANGED panicked
                  [] types.is_filled /\ ~filled ->
                       /\ types' = [types EXCEPT !.ty = checked.rows, !.set_row_data = None]
                       /\ panicked' = TRUE
                  [] types.is_filled /\ filled ->
                       /\ types' = IF types.has_duplicates /\ ~checked.has_duplicates
                                   THEN [types EXCEPT !.ty = checked.rows,
                                                      !.set_row_data = None,
                                                      !.has_duplicates = FALSE,
                                                      !.validity = Some("Valid")]
                                   ELSE [types EXCEPT !.ty = checked.rows,
                                                      !.set_row_data = None]
                       /\ UNCHANGED panicked
        /\ TypeFrame

\* TypeMsg::MoveUp
TypeMoveUp(idx) ==
    /\ types' = [types EXCEPT
                    !.ty = IF idx >= 1 THEN restore_move_valid(move_to(@, idx, idx - 1)) ELSE @,
                    !.set_row_data = None]
    /\ UNCHANGED panicked
    /\ TypeFrame

\* TypeMsg::MoveDown
TypeMoveDown(idx) ==
    /\ types' = [types EXCEPT
                    !.ty = IF idx + 1 < Len(@)
                           THEN restore_move_valid(move_to(@, idx, idx + 1)) ELSE @,
                    !.set_row_data = None]
    /\ UNCHANGED panicked
    /\ TypeFrame

\* TypeMsg::Replicate
TypeReplicate(row_data) ==
    /\ types' = [types EXCEPT !.ty = [i \in 1..Len(row_data) |-> RowNew],
                              !.set_row_data = Some(row_data)]
    /\ UNCHANGED panicked
    /\ TypeFrame

\* TypeMsg::NameChanged, the rows being those Row::update left
TypeNameChanged(rows, idx, prev_not_empty) ==
    LET current_not_empty == trim(rows[idx + 1].name) # <<>>
        checked == check_duplicates(rows)
        t == [types EXCEPT !.ty = checked.rows, !.set_row_data = None]
    IN  /\ types' =
             CASE ~prev_not_empty /\ ~current_not_empty -> t
               [] prev_not_empty /\ ~current_not_empty ->
                     IF types.is_filled
                     THEN [t EXCEPT !.is_filled = FALSE, !.validity = Some("NotFilled")]
                     ELSE t
               [] ~prev_not_empty /\ current_not_empty ->
                     IF is_filled(checked.rows)
                     THEN [t EXCEPT !.is_filled = TRUE,
                                    !.has_duplicates = checked.has_duplicates,
                                    !.validity = IF checked.has_duplicates
                                                 THEN Some("Duplicates") ELSE Some("Valid")]
                     ELSE t
               [] prev_not_empty /\ current_not_empty ->
                     IF types.is_filled /\ ~types.has_duplicates /\ checked.has_duplicates
                     THEN [t EXCEPT !.has_duplicates = TRUE, !.validity = Some("Duplicates")]
                     ELSE IF types.is_filled /\ types.has_duplicates
                             /\ ~checked.has_duplicates
                     THEN [t EXCEPT !.has_duplicates = FALSE, !.validity = Some("Valid")]
                     ELSE t
        /\ UNCHANGED panicked
        /\ TypeFrame

\* Row::update, RowValid::NameChanged, and the TypeMsg::NameChanged it sends
RowNameChanged(idx, s) ==
    TypeNameChanged([types.ty EXCEPT ![idx + 1].name = s], idx,
                    trim(types.ty[idx + 1].name) # <<>>)

\* Row::update, RowValid::TypeChanged
RowTypeChanged(idx, ty) ==
    /\ types' = [types EXCEPT !.ty[idx + 1].ty = ty]
    /\ UNCHANGED panicked
    /\ TypeFrame

\* the texts typed as a row's name and the row data replicated
RowNames == { <<>>, <<" ", "a">> }
TypeRowDatas ==
    { <<>>,
      <<RowEntry("id", "Number", 0)>>,
      <<RowEntry("id", "Number", 0), RowEntry("day", "Date", 1)>> }

\* the positions of the rows displayed
indices(rows) == 0..(Len(rows) - 1)

ClickTypeNew == ~panicked /\ Len(types.ty) < MaxRows /\ TypeAdd

ClickRowNew ==
    ~panicked /\ Len(types.ty) < MaxRows /\ \E idx \in indices(types.ty) : TypeAddAbove(idx)

ClickRowDelete == ~panicked /\ \E idx \in indices(types.ty) : TypeDelete(idx)

\* the up button of a row can be pressed while the row's up flag is set
ClickRowUp ==
    ~panicked /\ \E idx \in indices(types.ty) : types.ty[idx + 1].up /\ TypeMoveUp(idx)

ClickRowDown ==
    ~panicked /\ \E idx \in indices(types.ty) : types.ty[idx + 1].down /\ TypeMoveDown(idx)

RecvTypeReplicate == ~panicked /\ \E row_data \in TypeRowDatas : TypeReplicate(row_data)

EditRowName ==
    ~panicked /\ \E idx \in indices(types.ty), s \in RowNames : RowNameChanged(idx, s)

PickRowType ==
    /\ ~panicked
    /\ \E idx \in indices(types.ty), ty \in ColumnTypes :
          /\ \/ types.ty[idx + 1].ty # "String"
             \/ Cardinality({ i \in 1..Len(types.ty) : types.ty[i].ty # "String" }) < MaxTyped
          /\ RowTypeChanged(idx, ty)

(***************************************************************************)
(* The user's gestures on the main window (the view! block of main.rs).    *)
(* The user acts on an idle application: every queue is empty and the      *)
(* modal duplicate-warning dialog is hidden.  The message a gesture sends  *)
(* is then handled at once.  A combo box yields the index of one of the    *)
(* rows it shows, and nothing when it shows no row; the unit combo box     *)
(* shows the unit its last SelectUnit message carried.                     *)
(***************************************************************************)
Idle ==
    /\ ~panicked
    /\ dialog.hidden
    /\ appQ = <<>> /\ dialogQ = <<>> /\ analysisQ = <<>>
    /\ query_dialog = None

active(rows) == IF rows = <<>> THEN {None} ELSE { Some(i) : i \in 0..(Len(rows) - 1) }

ValidateTexts == { <<>>, <<" ">>, <<"a">> }

ClickAddStore ==
    /\ Idle
    /\ \E n \in StoreNames, l \in StoreLocations : AddStore([name |-> n, location |-> l])
    /\ UNCHANGED appQ

ClickAddReceipt ==
    /\ Idle
    /\ \E i \in active(stores.list), d \in Dates : AddReceipt([store_idx |-> i, date |-> d])
    /\ UNCHANGED appQ

ChangeUnit == Idle /\ (\E u \in Units : SelectUnit(u)) /\ UNCHANGED appQ

ClickOpenDbDialog == Idle /\ OpenDbDialog /\ UNCHANGED appQ

ClickOpenCreateDbDialog == Idle /\ OpenCreateDbDialog /\ UNCHANGED appQ

ClickConnectDb == Idle /\ ConnectDb /\ UNCHANGED appQ

ClickCreateDb == Idle /\ CreateDb /\ UNCHANGED appQ

ToggleCapitalize == Idle /\ (\E c \in BOOLEAN : CapitalizeItem(c)) /\ UNCHANGED appQ

EditStoreName == Idle /\ (\E t \in ValidateTexts : ValidateStoreName(t)) /\ UNCHANGED appQ

EditStoreLocation ==
    Idle /\ (\E t \in ValidateTexts : ValidateStoreLocation(t)) /\ UNCHANGED appQ

EditItemName == Idle /\ (\E t \in ValidateTexts : ValidateItemName(t)) /\ UNCHANGED appQ

(***************************************************************************)
(* The messages the Dialog forwards to App.                                *)
(***************************************************************************)
AppHead(t) == ~panicked /\ appQ # <<>> /\ Head(appQ).type = t

HandleForceAddStore ==
    AppHead("ForceAddStore") /\ ForceAddStore(Head(appQ)) /\ appQ' = Tail(appQ)

HandleForceAddReceipt ==
    AppHead("ForceAddReceipt") /\ ForceAddReceipt(Head(appQ)) /\ appQ' = Tail(appQ)

(***************************************************************************)
(* App::update for a message whoever sent it: the window is not taken to   *)
(* be idle, and a force-add need not come from the dialog (the dialog      *)
(* stays unanswered).                                                      *)
(***************************************************************************)
Quiet ==
    /\ ~panicked
    /\ appQ = <<>> /\ dialogQ = <<>> /\ analysisQ = <<>>
    /\ query_dialog = None

RecvAddStore ==
    /\ Quiet
    /\ \E n \in StoreNames, l \in StoreLocations : AddStore([name |-> n, location |-> l])
    /\ UNCHANGED appQ

RecvForceAddStore ==
    /\ Quiet
    /\ ForceAddStore([type |-> "ForceAddStore", name |-> <<"a">>, location |-> <<"x">>])
    /\ UNCHANGED appQ

RecvAddReceipt ==
    /\ Quiet
    /\ \E i \in active(stores.list) \cup {None} :
          AddReceipt([store_idx |-> i, date |-> Date1])
    /\ UNCHANGED appQ

RecvForceAddReceipt ==
    /\ Quiet
    /\ \E id \in {0} \cup { stores.list[i].id : i \in 1..Len(stores.list) } :
          ForceAddReceipt([type |-> "ForceAddReceipt", store_id |-> id,
                           date_str |-> format_F(Date1)])
    /\ UNCHANGED appQ

RecvAddItem ==
    /\ Quiet
    /\ \E n \in ItemNames, q \in Quantities, p \in Prices,
          i \in active(receipts.list) \cup {None} :
          AddItem([name |-> n, quantity |-> q, price |-> p, unit |-> selected_unit,
                   receipt_idx |-> i])
    /\ UNCHANGED appQ

RecvReceiptChanged ==
    /\ Quiet
    /\ \E i \in active(receipts.list) \cup {None} : ReceiptChanged(i)
    /\ UNCHANGED appQ

RecvSelectUnit == Quiet /\ (\E u \in Units : SelectUnit(u)) /\ UNCHANGED appQ

(***************************************************************************)
(* The message queue of App.  A widget's callback reads the widgets when   *)
(* the event fires and sends the message (sender.input); App::update       *)
(* handles the messages later, one at a time and in the order sent, each   *)
(* followed by the view refresh.  The widgets show the model as the last   *)
(* refresh left it, whatever still waits in the queue.  The refresh of the *)
(* receipt combo box (append_all_and_select) fires its connect_changed:    *)
(* remove_all drops the active row, set_active selects the row to select.  *)
(***************************************************************************)
allButAppQ == <<dbVars, conn, uiLists, uiReset, uiSettings, selected_unit, uiNames,
                dialogVars, analysisVars, panicked>>

\* the main window takes the user's events: the modal dialog is hidden, and
\* the Dialog and Analysis have handled what was sent to them
Ready ==
    /\ ~panicked
    /\ dialog.hidden
    /\ dialogQ = <<>> /\ analysisQ = <<>>
    /\ Len(appQ) < MaxQueued

\* receipt_entry's connect_changed during a refresh of the combo box
refresh_receipts(old, new) ==
    (IF old.list # <<>> THEN <<[type |-> "ReceiptChanged", idx |-> None]>> ELSE <<>>)
    \o (IF new.sel # None THEN <<[type |-> "ReceiptChanged", idx |-> new.sel]>> ELSE <<>>)

\* the receipt page's Add button
PressAddReceipt ==
    /\ Ready
    /\ \E i \in active(stores.list) :
          appQ' = Append(appQ, [type |-> "AddReceipt", store_idx |-> i, date |-> Date1])
    /\ UNCHANGED allButAppQ

\* the item page's Add button
PressAddItem ==
    /\ Ready
    /\ \E n \in ItemNames, q \in Quantities, p \in Prices, i \in active(receipts.list) :
          appQ' = Append(appQ, [type |-> "AddItem", name |-> n, quantity |-> q, price |-> p,
                                unit |-> selected_unit, receipt_idx |-> i])
    /\ UNCHANGED allButAppQ

\* the user picks a row of the receipt combo box
PickReceipt ==
    /\ Ready
    /\ \E i \in active(receipts.list) \ {None} :
          appQ' = Append(appQ, [type |-> "ReceiptChanged", idx |-> i])
    /\ UNCHANGED allButAppQ

\* the settings page's Connect Database button
PressConnectDb ==
    /\ Ready
    /\ appQ' = Append(appQ, [type |-> "ConnectDb"])
    /\ UNCHANGED allButAppQ

HandleAddReceipt ==
    /\ AppHead("AddReceipt")
    /\ AddReceipt(Head(appQ))
    /\ appQ' = Tail(appQ) \o (IF fs' # fs THEN refresh_receipts(receipts, receipts') ELSE <<>>)

HandleAddItem == AppHead("AddItem") /\ AddItem(Head(appQ)) /\ appQ' = Tail(appQ)

HandleReceiptChanged ==
    AppHead("ReceiptChanged") /\ ReceiptChanged(Head(appQ).idx) /\ appQ' = Tail(appQ)

HandleConnectDb ==
    /\ AppHead("ConnectDb")
    /\ ConnectDb
    /\ appQ' = Tail(appQ) \o (IF conn' # None /\ analysisQ' # analysisQ /\ ~panicked'
                              THEN refresh_receipts(receipts, receipts') ELSE <<>>)

(***************************************************************************)
(* The Analysis page.  PopulateModel is handled for every id, whether or   *)
(* not a query has it; the edit dialog is modal and answers an Open with   *)
(* an EditQueryResult for the id it was opened with, or with nothing.      *)
(***************************************************************************)
RecvPopulateModel ==
    /\ Idle
    /\ \E id \in 0..MaxQueries, values \in InputValueSets : PopulateModel(id, values)

ClickNew ==
    /\ Idle
    /\ Len(queries) < MaxQueries
    /\ \E t \in QueryNameTexts : trim(t) # <<>> /\ NewQuery(trim(t))

ClickEdit == Idle /\ \E id \in active(queries) \ {None} : EditQuery(id[1])

ClickDelete == Idle /\ \E id \in active(queries) \ {None} : DeleteQuery(id[1])

SelectQuery == Idle /\ \E a \in active(queries) \cup {None} : QuerySelected(a)

EditNewQueryName == Idle /\ \E t \in QueryNameTexts : NewQueryNameChanged(t)

QueryDialogRespond ==
    /\ ~panicked
    /\ query_dialog # None
    /\ query_dialog' = None
    /\ \/ \E q \in DialogQueries, n \in QueryNames : EditQueryResult(q, n, query_dialog[1])
       \/ UNCHANGED <<appState, childVars, queriesFile, queries, analysis, query_error, selected_query,
                      query_selected, new_button_valid, panicked>>

(***************************************************************************)
(* Analysis::update for a message whoever sent it: a NewQuery, an          *)
(* EditQueryResult for any entry and with any name, a DeleteQuery of an    *)
(* entry.                                                                  *)
(***************************************************************************)
RecvNewQuery ==
    /\ ~panicked
    /\ Len(queries) < MaxQueries
    /\ \E name \in QueryNames : NewQuery(name)

RecvEditQueryResult ==
    /\ ~panicked
    /\ query_dialog' = None
    /\ \E q \in DialogQueries, n \in QueryNames, id \in 0..(MaxQueries - 1) :
          EditQueryResult(q, n, id)

RecvDeleteQuery == ~panicked /\ \E id \in active(queries) \ {None} : DeleteQuery(id[1])

(***************************************************************************)
(* Specifications.                                                         *)
(***************************************************************************)
\* stores and receipts, the duplicate warning, switching between databases
Next ==
    \/ ClickAddStore \/ HandleForceAddStore
    \/ ClickAddReceipt \/ HandleForceAddReceipt
    \/ ClickOpenDbDialog
    \/ ClickConnectDb
    \/ DialogShow \/ DialogAccept \/ DialogCancel \/ UserRespond
    \/ AnalysisConnectDb

Spec == Init /\ [][Next]_vars

\* every insert request, in any order, on the database named by the settings file
NextMsgs ==
    \/ RecvAddStore \/ RecvForceAddStore
    \/ RecvAddReceipt \/ RecvForceAddReceipt
    \/ RecvAddItem
    \/ RecvReceiptChanged
    \/ DialogShow
    \/ AnalysisConnectDb

SpecMsgs == Init /\ [][NextMsgs]_vars

\* the items of the receipts and their totals
NextItems ==
    \/ RecvForceAddStore
    \/ RecvAddReceipt
    \/ RecvSelectUnit
    \/ RecvAddItem
    \/ RecvReceiptChanged
    \/ DialogShow
    \/ AnalysisConnectDb

SpecItems == Init /\ [][NextItems]_vars

\* the settings page
NextSettings ==
    \/ ClickOpenDbDialog
    \/ ClickOpenCreateDbDialog
    \/ ClickConnectDb
    \/ ClickCreateDb
    \/ ToggleCapitalize
    \/ AnalysisConnectDb

SpecSettings == Init /\ [][NextSettings]_vars

\* the name fields
NextNames ==
    \/ ClickOpenDbDialog
    \/ ClickConnectDb
    \/ EditStoreName
    \/ EditStoreLocation
    \/ EditItemName
    \/ ChangeUnit
    \/ AnalysisConnectDb

SpecNames == Init /\ [][NextNames]_vars

\* running the query of the Analysis page
NextAnalysis ==
    \/ RecvPopulateModel
    \/ ClickEdit
    \/ QueryDialogRespond
    \/ AnalysisConnectDb

SpecAnalysis == InitQueries /\ [][NextAnalysis]_vars

\* keeping the list of queries
NextQueries ==
    \/ ClickNew
    \/ ClickEdit
    \/ ClickDelete
    \/ QueryDialogRespond
    \/ SelectQuery
    \/ EditNewQueryName
    \/ AnalysisConnectDb

SpecQueries == InitQueries /\ [][NextQueries]_vars

\* the messages that change the list of queries, in any order
NextQueryMsgs ==
    \/ RecvNewQuery
    \/ RecvEditQueryResult
    \/ RecvDeleteQuery
    \/ AnalysisConnectDb

SpecQueryMsgs == InitQueries /\ [][NextQueryMsgs]_vars

\* the events of the user waiting in App's queue
NextInputs ==
    \/ RecvReplicate
    \/ EditValue

\* the input page alone: any Replicate, any edit of a displayed value
SpecInputs == Init /\ [][NextInputs]_vars

NextTypes ==
    \/ ClickTypeNew
    \/ ClickRowNew
    \/ ClickRowDelete
    \/ ClickRowUp
    \/ ClickRowDown
    \/ RecvTypeReplicate
    \/ EditRowName
    \/ PickRowType

\* a type editor alone
SpecTypes == Init /\ [][NextTypes]_vars

NextQueue ==
    \/ ClickOpenDbDialog
    \/ PressConnectDb \/ HandleConnectDb
    \/ PressAddReceipt \/ HandleAddReceipt
    \/ PressAddItem \/ HandleAddItem
    \/ PickReceipt \/ HandleReceiptChanged
    \/ HandleForceAddReceipt
    \/ DialogShow \/ DialogAccept \/ DialogCancel \/ UserRespond
    \/ AnalysisConnectDb

SpecQueue == Init /\ [][NextQueue]_vars

(***************************************************************************)
(* Properties.                                                             *)
(***************************************************************************)

\* C1: AddStore never creates a duplicate store.  When the connected database
\* holds a Store row with the trimmed name and location of the request,
\* handling AddStore leaves every file as it is and sends Show with that Store
\* origin to the dialog; and a step that adds a Store row whose (name,
\* location) pair the table already held handles a ForceAddStore message, which
\* only an accepted dialog sends.
C1_AddStoreNeverDuplicates ==
    [][ /\ \A n \in StoreNames, l \in StoreLocations :
              LET NotBlank(c) == c # " "
                  name == SelectSeq(n, NotBlank)
                  location == SelectSeq(l, NotBlank)
              IN  ( /\ conn # None
                    /\ \E i \in 1..Len(Db.Store) :
                          Db.Store[i].name = name /\ Db.Store[i].location = location
                    /\ Idle /\ AddStore([name |-> n, location |-> l]) /\ UNCHANGED appQ )
                  => ( /\ fs' = fs
                       /\ dialogQ' = Append(dialogQ,
                              [type |-> "Show",
                               origin |-> [kind |-> "Store", name |-> name,
                                           location |-> location]]) )
        /\ \A p \in Paths :
              ( /\ Len(fs'[p].Store) > Len(fs[p].Store)
                /\ \E i \in 1..Len(fs[p].Store) :
                      /\ fs[p].Store[i].name = fs'[p].Store[Len(fs'[p].Store)].name
                      /\ fs[p].Store[i].location = fs'[p].Store[Len(fs'[p].Store)].location )
              => ( /\ AppHead("ForceAddStore")
                   /\ appQ' = Tail(appQ)
                   /\ Head(appQ).name = fs'[p].Store[Len(fs'[p].Store)].name
                   /\ Head(appQ).location = fs'[p].Store[Len(fs'[p].Store)].location )
      ]_vars

\* a database holds two stores with the same name at the same location
C1_Witness ==
    \E p \in Paths : \E i, j \in 1..Len(fs[p].Store) :
        /\ i < j
        /\ fs[p].Store[i].name = fs[p].Store[j].name
        /\ fs[p].Store[i].location = fs[p].Store[j].location

\* C2: AddReceipt never creates a duplicate receipt.  When the connected
\* database holds a Receipt row with the id of the selected store and the
\* date of the request written as YYYY-MM-DD, handling AddReceipt leaves every
\* file as it is and sends Show with a Receipt origin (that store, that date)
\* to the dialog; and a step that adds a Receipt row whose (store, date) pair
\* the table already held handles a ForceAddReceipt message.
C2_AddReceiptNeverDuplicates ==
    [][ /\ \A i \in active(stores.list), d \in Dates :
              LET text == IF d = Date1 THEN Date1Text ELSE Date2Text
              IN  ( /\ conn # None /\ i # None
                    /\ \E k \in 1..Len(Db.Receipt) :
                          /\ Db.Receipt[k].store = stores.list[i[1] + 1].id
                          /\ Db.Receipt[k].date = text
                    /\ Idle /\ AddReceipt([store_idx |-> i, date |-> d]) /\ UNCHANGED appQ )
                  => ( /\ fs' = fs
                       /\ dialogQ' = Append(dialogQ,
                              [type |-> "Show",
                               origin |-> [kind |-> "Receipt",
                                           store |-> stores.list[i[1] + 1], date |-> d]]) )
        /\ \A p \in Paths :
              ( /\ Len(fs'[p].Receipt) > Len(fs[p].Receipt)
                /\ \E k \in 1..Len(fs[p].Receipt) :
                      /\ fs[p].Receipt[k].store = fs'[p].Receipt[Len(fs'[p].Receipt)].store
                      /\ fs[p].Receipt[k].date = fs'[p].Receipt[Len(fs'[p].Receipt)].date )
              => ( /\ AppHead("ForceAddReceipt")
                   /\ appQ' = Tail(appQ)
                   /\ Head(appQ).store_id = fs'[p].Receipt[Len(fs'[p].Receipt)].store
                   /\ Head(appQ).date_str = fs'[p].Receipt[Len(fs'[p].Receipt)].date )
      ]_vars

\* a database that takes inserts holds two receipts of one store for one day
C2_Witness ==
    \E p \in Paths : \E i, j \in 1..Len(fs[p].Receipt) :
        /\ i < j
        /\ ~fs[p].readonly
        /\ fs[p].Receipt[i].store = fs[p].Receipt[j].store
        /\ fs[p].Receipt[i].date = fs[p].Receipt[j].date
        /\ fs[p].Receipt[i].date \in {Date1Text, Date2Text}

\* C3: the protocol of the duplicate-warning dialog.  It starts hidden; its
\* state changes only when it handles a message; Show makes it visible with
\* the origin of the message and sends nothing; Cancel hides it and sends
\* nothing; Accept hides it and sends the parent exactly one message,
\* ForceAddStore(name, location) for a Store origin and ForceAddReceipt(store
\* id, date as YYYY-MM-DD) for a Receipt origin, of the last Show; the user can
\* answer only a visible dialog, and the parent gets a force-add only from an
\* Accept that a Show preceded.
C3_DialogProtocol ==
    /\ dialog.hidden
    /\ [][ LET handles == dialogQ # <<>> /\ dialogQ' = Tail(dialogQ)
               text(d) == CASE d = Date1 -> Date1Text [] d = Date2 -> Date2Text
                            [] OTHER -> <<>>
               sent == IF dialog.origin.kind = "Store"
                       THEN [type |-> "ForceAddStore", name |-> dialog.origin.name,
                             location |-> dialog.origin.location]
                       ELSE [type |-> "ForceAddReceipt", store_id |-> dialog.origin.store.id,
                             date_str |-> text(dialog.origin.date)]
           IN  /\ dialog' # dialog => handles
               /\ handles =>
                     CASE Head(dialogQ).type = "Show" ->
                            /\ dialog' = [hidden |-> FALSE, origin |-> Head(dialogQ).origin]
                            /\ appQ' = appQ
                       [] Head(dialogQ).type = "Accept" ->
                            /\ ~dialog.hidden
                            /\ dialog' = [hidden |-> TRUE, origin |-> dialog.origin]
                            /\ appQ' = Append(appQ, sent)
                       [] OTHER ->
                            /\ ~dialog.hidden
                            /\ dialog' = [hidden |-> TRUE, origin |-> dialog.origin]
                            /\ appQ' = appQ
               /\ Len(appQ') > Len(appQ) =>
                     /\ handles /\ Head(dialogQ).type = "Accept"
                     /\ dialog.origin # InitDialog.origin
               /\ Len(dialogQ') > Len(dialogQ) /\ dialogQ'[Len(dialogQ')].type # "Show" =>
                     ~dialog.hidden
         ]_vars

\* the dialog was accepted for a receipt: it is hidden again and its force-add
\* message waits for the parent
C3_Witness ==
    /\ dialog.hidden
    /\ dialog.origin.kind = "Receipt"
    /\ appQ # <<>>
    /\ appQ[1].type = "ForceAddReceipt"
    /\ appQ[1].date_str = Date2Text

\* C4: an insert request without its preconditions has no effect.  Without a
\* connection no message (AddStore, ForceAddStore, AddReceipt, ForceAddReceipt,
\* AddItem, ReceiptChanged) changes a file, sends the dialog a message or
\* changes stores, receipts or total; with a connection the same holds for
\* AddStore with a blank name or location, for AddReceipt without a selected
\* store and for AddItem with a blank name or without a selected receipt.
C4_NoEffectWithoutPreconditions ==
    [][ LET NotBlank(c) == c # " "
            blank(s) == SelectSeq(s, NotBlank) = <<>>
            NoEffect == /\ fs' = fs /\ dialogQ' = dialogQ /\ dialog' = dialog
                        /\ stores' = stores /\ receipts' = receipts /\ total' = total
                        /\ ~panicked'
        IN  /\ conn = None => NoEffect
            /\ \A n \in StoreNames, l \in StoreLocations :
                  ( /\ blank(n) \/ blank(l)
                    /\ Quiet /\ AddStore([name |-> n, location |-> l]) /\ UNCHANGED appQ )
                  => NoEffect
            /\ \A d \in Dates :
                  (Quiet /\ AddReceipt([store_idx |-> None, date |-> d]) /\ UNCHANGED appQ)
                  => NoEffect
            /\ \A n \in ItemNames, q \in Quantities, p \in Prices, u \in Units,
                  i \in active(receipts.list) \cup {None} :
                  ( /\ blank(n) \/ i = None
                    /\ Quiet
                    /\ AddItem([name |-> n, quantity |-> q, price |-> p, unit |-> u,
                                receipt_idx |-> i])
                    /\ UNCHANGED appQ )
                  => NoEffect
      ]_vars

\* a store was added, and the message handled after it changed nothing
C4_Witness ==
    /\ conn = Some(<<"a">>) /\ ~panicked
    /\ Len(stores.list) = 1 /\ Len(fs[<<"a">>].Store) = 1
    /\ receipts.list = <<>> /\ total = <<>>
    /\ ~reset_store_fields
    /\ dialog.hidden /\ dialogQ = <<>>

\* C5: executing a query is all or nothing.  PopulateModel(id) with a
\* connection and a query at id either shows a new result table for id, with
\* one row per row the statement returns and column i of every row holding the
\* value SQLite returned, as the type table_header[i] declares, and clears
\* query_error; or it sets query_error to a non-empty message and leaves the
\* shown table as it was.  It fails exactly when the statement does not
\* prepare, an input (its name prefixed with ':') is no parameter of the
\* statement, or a column of a row is missing or of another type.  Without a
\* connection or without a query at id it changes nothing.
C5_ExecQueryAllOrNothing ==
    [][ \A id \in 0..MaxQueries, values \in InputValueSets :
          (Idle /\ PopulateModel(id, values)) =>
            IF analysisConn = None \/ id >= Len(queries)
            THEN UNCHANGED vars
            ELSE LET db == fs[analysisConn[1]]
                     query == queries[id + 1].query
                     header == query.table_header
                     named == [k \in 1..Len(values) |->
                                  [name |-> <<":">> \o values[k].name,
                                   value |-> values[k].value]]
                     returned == Rows(db, query.sql, named)
                     sqlType(ty) == IF ty = "Number" THEN "Integer" ELSE "Text"
                     bindFails == \E k \in 1..Len(values) :
                                     <<":">> \o values[k].name \notin Parameters(query.sql)
                     convertFails ==
                         \E r \in 1..Len(returned), c \in 1..Len(header) :
                             \/ c > Len(returned[r])
                             \/ returned[r][c].ty # sqlType(header[c].ty)
                     prepares == PrepareOutcomes(db, query.sql)
                 IN  \/ /\ TRUE \in prepares /\ ~bindFails /\ ~convertFails
                        /\ query_error' = ""
                        /\ analysis' # None
                        /\ analysis'[1].query_id = id
                        /\ Len(analysis'[1].store) = Len(returned)
                        /\ \A r \in 1..Len(returned) :
                              /\ Len(analysis'[1].store[r]) = Len(header)
                              /\ \A c \in 1..Len(header) :
                                    /\ analysis'[1].store[r][c].ty = header[c].ty
                                    /\ analysis'[1].store[r][c].s = returned[r][c].s
                                    /\ analysis'[1].store[r][c].n = returned[r][c].n
                     \/ /\ FALSE \in prepares \/ bindFails \/ convertFails
                        /\ query_error' # ""
                        /\ analysis' = analysis
      ]_vars

\* a result table is shown, and a later run failed and left it there
C5_Witness ==
    /\ analysis # None
    /\ Len(analysis[1].store) = 2
    /\ query_error = "Mismatch between the output type and the query column type"

\* C6: the queries are persisted.  In every state the list of queries in
\* ./sqlbon_queries.json (names, SQL, output and input column names and
\* types, in order; no list when the file is missing or unreadable) is the
\* list of queries in memory.
C6_QueriesPersisted == queriesFile.list = SerializeQueries(queries)

\* C7: the settings status line reads 'Successfully connected.' only while a
\* database connection is open.
C7_ConnectedStatusOnlyWithConnection ==
    settings_db_path_status = "Successfully connected." => conn # None

\* C8: whenever sqlbon_settings.json is written, the db_file it records is
\* the path of the database the application is connected to.
C8_SettingsFileNamesConnectedDb ==
    [][ (settingsFile' # settingsFile /\ settingsFile'.valid)
        => (conn' # None /\ settingsFile'.db_file = conn'[1]) ]_vars

\* C9: NameStatus tracks two independent facts.  Each of the three statuses
\* starts without a name and connected iff the application is; a connect
\* makes it connected and keeps the name fact; a name event sets the name
\* fact to whether the trimmed text is non-empty and keeps the connected
\* fact, and touches no other status; nothing else changes a status, so a
\* connected status (Connected, Valid) never becomes unconnected (Invalid,
\* NonEmpty) and a status is connected iff a connection exists; and the store
\* and item Add buttons are enabled exactly when their statuses are Valid,
\* i.e. connected with a non-empty name.
C9_NameStatusFacts ==
    /\ \A s \in {store_name_valid, store_location_valid, item_name_valid} :
          /\ s \in {"Connected", "Invalid"}
          /\ s = "Connected" <=> conn # None
    /\ [][ LET connected(s) == s \in {"Connected", "Valid"}
               non_empty(s) == s \in {"Valid", "NonEmpty"}
               NotBlank(c) == c # " "
               blank(t) == SelectSeq(t, NotBlank) = <<>>
               names(s, s2, t) == /\ connected(s2) <=> connected(s)
                                  /\ non_empty(s2) <=> ~blank(t)
           IN  /\ \A ss \in { <<store_name_valid, store_name_valid'>>,
                              <<store_location_valid, store_location_valid'>>,
                              <<item_name_valid, item_name_valid'>> } :
                    /\ ss[2] \in {"Valid", "NonEmpty", "Connected", "Invalid"}
                    /\ connected(ss[1]) => connected(ss[2])
                    /\ connected(ss[2]) <=> conn' # None
                    /\ conn' # conn => (non_empty(ss[2]) <=> non_empty(ss[1]))
               /\ \A t \in ValidateTexts :
                    /\ (Idle /\ ValidateStoreName(t) /\ UNCHANGED appQ) =>
                          /\ names(store_name_valid, store_name_valid', t)
                          /\ UNCHANGED <<store_location_valid, item_name_valid>>
                    /\ (Idle /\ ValidateStoreLocation(t) /\ UNCHANGED appQ) =>
                          /\ names(store_location_valid, store_location_valid', t)
                          /\ UNCHANGED <<store_name_valid, item_name_valid>>
                    /\ (Idle /\ ValidateItemName(t) /\ UNCHANGED appQ) =>
                          /\ names(item_name_valid, item_name_valid', t)
                          /\ UNCHANGED <<store_name_valid, store_location_valid>>
               /\ uiNames' # uiNames =>
                    \/ conn' # None /\ analysisQ' # analysisQ
                    \/ \E t \in ValidateTexts :
                          \/ ValidateStoreName(t) \/ ValidateStoreLocation(t)
                          \/ ValidateItemName(t)
               /\ store_add_sensitive' <=>
                    /\ connected(store_name_valid') /\ non_empty(store_name_valid')
                    /\ connected(store_location_valid') /\ non_empty(store_location_valid')
               /\ item_add_sensitive' <=>
                    connected(item_name_valid') /\ non_empty(item_name_valid')
         ]_vars

\* a connected application with a store name and an item name typed and the
\* location left blank: the store Add button is disabled, the item one enabled
C9_Witness ==
    /\ conn # None
    /\ store_name_valid = "Valid"
    /\ store_location_valid = "Connected"
    /\ item_name_valid = "Valid"
    /\ ~store_add_sensitive /\ item_add_sensitive

\* C10: what load_stores and load_receipts leave.  The list holds the rows of
\* the table (for receipts: with the name of their store) in strictly
\* ascending id order; the row to select is the first row whose id the list
\* loaded before did not hold, else the last row, and none iff the list is
\* empty, so it is a position of the list; and after an insert on the
\* connection the lists were loaded from, the inserted row is the selected one.
C10_LoadSelectsNewRow ==
    [][ LET Ascending(l) == \A i \in 1..(Len(l) - 1) : l[i].id < l[i + 1].id
            InBounds(ui) == /\ Ascending(ui.list)
                            /\ (ui.sel = None) <=> (ui.list = <<>>)
                            /\ ui.sel # None => ui.sel[1] \in 0..(Len(ui.list) - 1)
            Fresh(new, old) ==
                { i \in 1..Len(new) : \A j \in 1..Len(old) : old[j].id # new[i].id }
            Selects(ui, old) ==
                IF Fresh(ui.list, old) # {}
                THEN \E i \in Fresh(ui.list, old) :
                        /\ \A j \in Fresh(ui.list, old) : i <= j
                        /\ ui.sel = Some(i - 1)
                ELSE ui.sel = IF ui.list = <<>> THEN None ELSE Some(Len(ui.list) - 1)
            Inserted(table, table2) == Len(table2) = Len(table) + 1
        IN  /\ InBounds(stores) /\ InBounds(receipts)
            /\ InBounds(stores') /\ InBounds(receipts')
            /\ stores' # stores =>
                 LET table == fs'[conn'[1]].Store
                 IN  /\ Len(stores'.list) = Len(table)
                     /\ \A i \in 1..Len(table) : \E j \in 1..Len(table) :
                           stores'.list[j] = table[i]
                     /\ Selects(stores', stores.list)
            /\ receipts' # receipts =>
                 LET table == fs'[conn'[1]].Receipt
                     named == fs'[conn'[1]].Store
                 IN  /\ Len(receipts'.list) = Len(table)
                     /\ \A i \in 1..Len(table) : \E j \in 1..Len(table) :
                           /\ receipts'.list[j].id = table[i].id
                           /\ receipts'.list[j].date = table[i].date
                           /\ \E k \in 1..Len(named) :
                                 /\ named[k].id = table[i].store
                                 /\ named[k].name = receipts'.list[j].store_name
                     /\ Selects(receipts', receipts.list)
            /\ conn # None /\ conn' = conn =>
                 /\ Inserted(fs[conn[1]].Store, fs'[conn[1]].Store) =>
                       stores'.list[stores'.sel[1] + 1] =
                          fs'[conn[1]].Store[Len(fs'[conn[1]].Store)]
                 /\ Inserted(fs[conn[1]].Receipt, fs'[conn[1]].Receipt) =>
                       receipts'.list[receipts'.sel[1] + 1].id =
                          fs'[conn[1]].Receipt[Len(fs'[conn[1]].Receipt)].id
      ]_vars

\* a second store was just added to a database: the list shows both stores
\* and selects the new one, and the receipt added before is still selected
C10_Witness ==
    /\ conn = Some(<<"a">>)
    /\ Len(stores.list) = 2
    /\ stores.sel = Some(1)
    /\ reset_store_fields
    /\ receipts.sel = Some(0)

\* C11: the row index of a queued message is inside the list when the message
\* is handled.  The message App handles next, when it is an AddReceipt, an
\* AddItem or a ReceiptChanged that reaches the indexing (a connection is
\* held, the index is Some, the item name is not blank), carries an index
\* below the length of ui.stores.0 / ui.receipts.0.
C11_QueuedIndexInsideList ==
    (~panicked /\ appQ # <<>> /\ conn # None) =>
        LET m == Head(appQ)
        IN  /\ (m.type = "AddReceipt" /\ m.store_idx # None)
                  => m.store_idx[1] < Len(stores.list)
            /\ (m.type = "AddItem" /\ m.receipt_idx # None /\ trim(m.name) # <<>>)
                  => m.receipt_idx[1] < Len(receipts.list)
            /\ (m.type = "ReceiptChanged" /\ m.idx # None)
                  => m.idx[1] < Len(receipts.list)

\* C12: the total shown after AddItem and ReceiptChanged.  Handling AddItem with
\* a connection, a selected receipt and a name that is not blank either leaves
\* the files as they are or appends to the Item table of the connected
\* database one item of that receipt with the trimmed name, in upper case iff
\* capitalize_item_names is set; reset_item_fields is raised iff the item was
\* appended; and ui.total then holds one entry for each unit some item of the
\* receipt has, and no other entry, whose amount is the sum of price * quantity
\* over the receipt's items of that unit as the table holds them after the
\* attempt.  ReceiptChanged(Some(i)) changes no file and leaves in ui.total
\* the same totals of receipt i.
C12_TotalOfReceipt ==
    [][ LET NotBlank(c) == c # " "
            Up(c) == IF c = "a" THEN "A" ELSE c
            Stored(n) == LET t == SelectSeq(n, NotBlank)
                         IN  IF capitalize_item_names THEN [k \in 1..Len(t) |-> Up(t[k])] ELSE t
            Of(items, rid, u) ==
                { k \in 1..Len(items) : items[k].receipt = rid /\ items[k].unit = u }
            RECURSIVE Amount(_, _)
            Amount(items, ks) ==
                IF ks = {} THEN 0
                ELSE LET k == CHOOSE x \in ks : TRUE
                     IN  (items[k].price * items[k].quantity) + Amount(items, ks \ {k})
            TotalIs(t, items, rid) ==
                /\ \A u \in Units : (Of(items, rid, u) # {}) <=> (\E k \in 1..Len(t) : t[k].unit = u)
                /\ \A k, j \in 1..Len(t) : t[k].unit = t[j].unit => k = j
                /\ \A k \in 1..Len(t) :
                      /\ t[k].unit \in Units
                      /\ t[k].price = Amount(items, Of(items, rid, t[k].unit))
        IN  /\ \A n \in ItemNames, q \in Quantities, p \in Prices, i \in active(receipts.list) :
                  ( /\ conn # None /\ i # None /\ SelectSeq(n, NotBlank) # <<>>
                    /\ Quiet
                    /\ AddItem([name |-> n, quantity |-> q, price |-> p,
                                unit |-> selected_unit, receipt_idx |-> i])
                    /\ UNCHANGED appQ )
                  => LET rid == receipts.list[i[1] + 1].id
                         added == [name |-> Stored(n), quantity |-> q, price |-> p,
                                   unit |-> selected_unit, receipt |-> rid]
                     IN  /\ ~panicked'
                         /\ \/ fs' = fs
                            \/ fs' = [fs EXCEPT ![conn[1]].Item = Append(@, added)]
                         /\ reset_item_fields' <=> (fs' # fs)
                         /\ TotalIs(total', fs'[conn[1]].Item, rid)
            /\ \A i \in active(receipts.list) :
                  (conn # None /\ i # None /\ Quiet /\ ReceiptChanged(i) /\ UNCHANGED appQ)
                  => /\ ~panicked'
                     /\ fs' = fs
                     /\ TotalIs(total', fs[conn[1]].Item, receipts.list[i[1] + 1].id)
      ]_vars

\* an item was added under capitalize_item_names with the unit EUR: it is
\* stored in upper case, the total shows its amount and the fields are reset
C12_Witness ==
    /\ conn = Some(<<"a">>)
    /\ Len(fs[<<"a">>].Item) = 1
    /\ fs[<<"a">>].Item[1].name = <<"A">>
    /\ total = <<TotalRow("EUR", 6)>>
    /\ reset_item_fields

\* C13: a failed ConnectDb changes only the status line.  With a database path
\* that is blank the status becomes 'No File Selected.', and with a path that
\* cannot be opened 'Selected File is not a valid Database.'; in both cases
\* the connection, the stores and receipts, the three NameStatus fields, the
\* connection of Analysis (and what was sent to it), the settings file and
\* the database files stay as they were.  With a path that opens, the
\* connection becomes that path, the path is sent to Analysis and, the file
\* holding the tables, the lists hold the rows of that database and each
\* NameStatus is connected with its name fact kept.  And no other step
\* replaces the connection of App, and Analysis takes only a connection App
\* sent.
C13_FailedConnectKeepsConnection ==
    [][ LET NotBlank(c) == c # " "
            path == SelectSeq(settings_db_path, NotBlank)
            Frame == /\ conn' = conn
                     /\ stores' = stores /\ receipts' = receipts
                     /\ uiNames' = uiNames
                     /\ analysisConn' = analysisConn /\ analysisQ' = analysisQ
                     /\ settingsFile' = settingsFile /\ fs' = fs
                     /\ ~panicked'
            Connected(s, s2) == /\ s2 \in {"Connected", "Valid"}
                                /\ (s2 = "Valid") <=> (s \in {"Valid", "NonEmpty"})
            SameRows(list, table) ==
                /\ Len(list) = Len(table)
                /\ \A i \in 1..Len(table) : \E j \in 1..Len(list) : list[j].id = table[i].id
        IN  /\ (Idle /\ ConnectDb /\ UNCHANGED appQ) =>
                 IF path = <<>>
                 THEN settings_db_path_status' = "No File Selected." /\ Frame
                 ELSE IF fs[path].kind = "dir"
                 THEN /\ settings_db_path_status' = "Selected File is not a valid Database."
                      /\ Frame
                 ELSE /\ conn' = Some(path)
                      /\ analysisQ' = Append(analysisQ, [type |-> "ConnectDb", db |-> path])
                      /\ fs' = fs
                      /\ \/ panicked' /\ fs[path].kind # "db"
                         \/ /\ ~panicked'
                            /\ SameRows(stores'.list, fs[path].Store)
                            /\ SameRows(receipts'.list, fs[path].Receipt)
                            /\ Connected(store_name_valid, store_name_valid')
                            /\ Connected(store_location_valid, store_location_valid')
                            /\ Connected(item_name_valid, item_name_valid')
                            /\ settings_db_path_status' # "No File Selected."
                            /\ settings_db_path_status'
                                  # "Selected File is not a valid Database."
            /\ conn' # conn =>
                 /\ conn' = Some(path) /\ fs[path].kind # "dir"
                 /\ analysisQ' = Append(analysisQ, [type |-> "ConnectDb", db |-> path])
            /\ analysisConn' # analysisConn =>
                 /\ analysisQ # <<>> /\ analysisQ' = Tail(analysisQ)
                 /\ analysisConn' = Some(Head(analysisQ).db)
      ]_vars

\* connected to database b with names typed, the user asked for a path that
\* does not open: the status says so and the rows of b are still shown
C13_Witness ==
    /\ conn = Some(<<"b">>) /\ analysisConn = Some(<<"b">>)
    /\ settings_db_path = <<"d">>
    /\ settings_db_path_status = "Selected File is not a valid Database."
    /\ Len(stores.list) = 2 /\ Len(receipts.list) = 2
    /\ store_name_valid = "Valid" /\ item_name_valid = "Connected"

\* C14: CreateDb keeps the connection and what is shown.  Handling CreateDb
\* never changes the connection of App or of Analysis, the stores and
\* receipts, the NameStatus fields, the settings file, the connect status or
\* a file other than the one named.  The create status it leaves is one of
\* five: 'Database created successfully.' with settings_db_path set to the
\* trimmed create path and the file holding three empty tables; or, with
\* settings_db_path unchanged, 'No File Selected.' for a blank path, 'Could
\* not create/truncate the file.' for a path that cannot be written (no file
\* changed in either case), 'Could not open the database.', or 'Could not
\* initialize the database.' with the file removed.
C14_CreateDbKeepsConnection ==
    [][ LET NotBlank(c) == c # " "
            path == SelectSeq(settings_db_create_path, NotBlank)
            status == settings_db_create_path_status'
            Writable == fs[path].kind # "dir" /\ ~fs[path].readonly
        IN  (Idle /\ CreateDb /\ UNCHANGED appQ) =>
               /\ conn' = conn /\ analysisConn' = analysisConn /\ analysisQ' = analysisQ
               /\ stores' = stores /\ receipts' = receipts /\ total' = total
               /\ uiNames' = uiNames
               /\ settingsFile' = settingsFile
               /\ settings_db_path_status' = settings_db_path_status
               /\ settings_db_create_path' = settings_db_create_path
               /\ ~panicked'
               /\ \A q \in Paths : q # path => fs'[q] = fs[q]
               /\ status \in { "Database created successfully.", "No File Selected.",
                               "Could not create/truncate the file.",
                               "Could not open the database.",
                               "Could not initialize the database." }
               /\ (status = "No File Selected.") <=> (path = <<>>)
               /\ (status = "Could not create/truncate the file.")
                     <=> (path # <<>> /\ ~Writable)
               /\ status \in {"No File Selected.", "Could not create/truncate the file."}
                     => fs' = fs
               /\ status = "Database created successfully." =>
                     /\ settings_db_path' = path
                     /\ fs'[path].kind = "db"
                     /\ fs'[path].Store = <<>> /\ fs'[path].Receipt = <<>>
                     /\ fs'[path].Item = <<>>
               /\ status # "Database created successfully." =>
                     settings_db_path' = settings_db_path
               /\ status = "Could not initialize the database." => fs'[path].kind = "none"
               /\ status = "Could not open the database." => fs'[path].kind # "db"
      ]_vars

\* connected to database b, the user created database a: the path entry names
\* a, and the connection and the rows shown are still those of b
C14_Witness ==
    /\ conn = Some(<<"b">>)
    /\ settings_db_path = <<"a">>
    /\ settings_db_create_path_status = "Database created successfully."
    /\ Len(stores.list) = 2 /\ Len(receipts.list) = 2
    /\ store_name_valid = "Connected"

C16_ReplicateShowsAndSaves ==
    [][ \A name \in QueryNames, row_data \in RowDatas, now \in Clock :
          (~panicked /\ Replicate(name, row_data, now)) =>
             LET n == Len(row_data)
                 shown == input_values'.values
                 Before == [i \in 1..Len(input_values.values) |-> input_values.values[i].value]
                 \* the places of row_data's entries taken in ascending id order
                 Ascending(q) ==
                     /\ \A i, j \in 1..n : i # j => q[i] # q[j]
                     /\ \A i, j \in 1..n :
                           i < j => \/ row_data[q[i]].id < row_data[q[j]].id
                                    \/ row_data[q[i]].id = row_data[q[j]].id /\ q[i] < q[j]
                 place == CHOOSE q \in [1..n -> 1..n] : Ascending(q)
             IN  /\ input_values'.show = name
                 /\ Len(shown) = n
                 /\ \A i \in 1..n : /\ shown[i].name = row_data[place[i]].name
                                    /\ shown[i].value.ty = row_data[place[i]].ty
                 /\ input_values'.data[name] = Some([i \in 1..n |-> shown[i].value])
                 /\ input_values'.data[input_values.show] = Some(Before)
                 /\ get_input_values(input_values') =
                       [i \in 1..n |-> <<shown[i].name, shown[i].value>>]
      ]_vars

\* C16, amended: the same, but the values displayed before the call are
\* stored under the name shown before only when that name is not the name
\* now shown; when it is, data[name] holds the values now displayed.
C16_ReplicateShowsAndSavesOther ==
    [][ \A name \in QueryNames, row_data \in RowDatas, now \in Clock :
          (~panicked /\ Replicate(name, row_data, now)) =>
             LET n == Len(row_data)
                 shown == input_values'.values
                 Before == [i \in 1..Len(input_values.values) |-> input_values.values[i].value]
                 \* the places of row_data's entries taken in ascending id order
                 Ascending(q) ==
                     /\ \A i, j \in 1..n : i # j => q[i] # q[j]
                     /\ \A i, j \in 1..n :
                           i < j => \/ row_data[q[i]].id < row_data[q[j]].id
                                    \/ row_data[q[i]].id = row_data[q[j]].id /\ q[i] < q[j]
                 place == CHOOSE q \in [1..n -> 1..n] : Ascending(q)
             IN  /\ input_values'.show = name
                 /\ Len(shown) = n
                 /\ \A i \in 1..n : /\ shown[i].name = row_data[place[i]].name
                                    /\ shown[i].value.ty = row_data[place[i]].ty
                 /\ input_values'.data[name] = Some([i \in 1..n |-> shown[i].value])
                 /\ name # input_values.show => input_values'.data[input_values.show] = Some(Before)
                 /\ get_input_values(input_values') =
                       [i \in 1..n |-> <<shown[i].name, shown[i].value>>]
      ]_vars

\* query r is shown after q: its two inputs stand in id order though they came
\* the other way round, and the 7 typed for q is kept under q
C16_Witness ==
    /\ input_values.show = <<"r">>
    /\ input_values.data[<<"q">>] = Some(<<ColumnTypeValue("Number", <<>>, 7)>>)
    /\ Len(input_values.values) = 2
    /\ input_values.values[1].name = "id" /\ input_values.values[1].value.ty = "Number"
    /\ input_values.values[2].name = "day" /\ input_values.values[2].value.ty = "Date"
    /\ input_values.data[<<"r">>] =
          Some(<<input_values.values[1].value, input_values.values[2].value>>)

(***************************************************************************)
(* The type editor.                                                        *)
(***************************************************************************)
\* C17: after every handled TypeMsg, and for every number of rows, the up
\* flag of a row is set iff the row is not the first and its down flag is set
\* iff the row is not the last.
C17_MoveFlagsMatchPosition ==
    \A i \in 1..Len(types.ty) :
       /\ types.ty[i].up <=> (i # 1)
       /\ types.ty[i].down <=> (i # Len(types.ty))

====
